---- MODULE Spec2Model ----
(***************************************************************************)
(* Model of the statistics readers of the FTL API (api.c): top domains,    *)
(* top clients, upstreams, overTime history / clients and the query log,   *)
(* over the in-memory tables the resolver (the writer) fills.              *)
(*                                                                         *)
(* The readers take no lock.  A call is therefore a sequence of steps, one *)
(* per loop pass and one per stretch of statements between two reads of    *)
(* shared data that a function call separates, and the writer may act      *)
(* between any two of them.  rd holds the position and the locals of the   *)
(* call in progress, out what a finished call has sent.                    *)
(*                                                                         *)
(* Identifiers are 0-based as in the C arrays; TLA+ sequences are 1-based, *)
(* so entity i lives at position i + 1 (see getDomain, getClient, ...).    *)
(***************************************************************************)
EXTENDS Integers, Sequences, FiniteSets, TLC

(***************************************************************************)
(* Bounds of the model.                                                    *)
(***************************************************************************)
\* Queries the writer appends at most: under Spec, SpecPolicy, SpecLog,
\* SpecOverTime.
MaxQueries == 3
MaxPolicyQueries == 2
MaxLogQueries == 2
MaxOverTimeQueries == 2
\* Queries the writer appends at most under SpecTop.
MaxTopQueries == 4
\* Queries the writer appends at most under SpecConc.
MaxConcQueries == 3
\* Queries the writer appends at most under SpecReaders.
MaxReaderQueries == 2
\* Queries the writer appends at most under SpecShow.
MaxShowQueries == 2
\* Queries the writer appends at most under SpecShared.
MaxSharedQueries == 2
\* Requests /api/dns/status is sent at most under SpecDns.
MaxRequests == 3
\* Rows api_stats_top_domains sends: "show=10" in the source (line 172),
\* scaled down so that tables of three domains exceed it.
show == 2
\* Rows getTopClients sends: "count=10" in the source (line 326), scaled.
topClientsCount == 2
\* Regular upstreams api_stats_upstreams loops over: min(counters->forwarded, 8)
\* in the source (line 455), scaled.
upstreamsShown == 2
\* Length of the overTime array (OVERTIME_SLOTS of overTime.h), scaled.
OVERTIME_SLOTS == 3

(***************************************************************************)
(* Program constants.                                                      *)
(***************************************************************************)
QUERY_UNKNOWN == 0
QUERY_GRAVITY == 1
QUERY_FORWARDED == 2
QUERY_CACHE == 3
QUERY_WILDCARD == 4
QUERY_BLACKLIST == 5
\* The fourth blocking status of the query record (blocked by the upstream).
QUERY_EXTERNAL_BLOCKED == 6

PRIVACY_SHOW_ALL == 0
PRIVACY_HIDE_DOMAINS == 1
PRIVACY_HIDE_DOMAINS_CLIENTS == 2
PRIVACY_MAXIMUM == 3

TYPE_A == 0
TYPE_MAX == 7

HIDDEN_DOMAIN == "hidden"
HIDDEN_CLIENT == "0.0.0.0"

\* The sanity ceiling of a response delay, 1.8e7 (line 766).
DELAY_CEILING == 18000000

\* The largest and the smallest value of an int (32 bits).
INT_MAX == 2147483647
INT_MIN == -2147483647 - 1

\* Locals of getAllQueries that the request can no longer set (the parsing at
\* lines 553-669 is commented out): no time range, no domain, client, query
\* type or upstream filter.
from == 0
until == 0
filterdomainname == FALSE
domainid == -1
filterclientname == FALSE
clientid == -1
querytype == 0
filterforwarddest == FALSE
forwarddestid == 0

querytypes == <<"A", "AAAA", "ANY", "SRV", "SOA", "PTR", "TXT", "UNKN">>

\* Seconds one overTime slot spans; slot s starts at s * OVERTIME_INTERVAL.
OVERTIME_INTERVAL == 2

VARIABLES
    domains,        \* domainsData[]: <<[domain, count, blockedcount], ...>>
    clients,        \* clientsData[]: <<[ip, name, count, blockedcount, overTime], ...>>
    forwarded,      \* forwardedData[]: <<[ip, name, count], ...>>
    queries,        \* queriesData[]: the query log, in insertion order
    overTime,       \* overTime[slot]: [timestamp, total, blocked]
    counters,       \* counters->blocked, ->cached, ->forwardedqueries
    privacylevel,   \* config.privacylevel
    ftlconf,        \* pihole-FTL.conf: PRIVACYLEVEL
    setupVars,      \* setupVars.conf: API_EXCLUDE_DOMAINS, API_EXCLUDE_CLIENTS, API_QUERY_LOG_SHOW
    setupVarsArray, \* the shared parsed list of setupVars.c
    now,            \* time(NULL)
    out,            \* what the reader call that has just ended has sent
    rd,             \* position and locals of the reader call in progress
    rd2,            \* position of the getAllQueries call a second thread serves
    blockingstatus, \* get_blockingstatus(): TRUE when blocking is enabled
    timer,          \* the blocking mode timer: [delay, target], delay -1 when off
    requests        \* the requests /api/dns/status has been sent, oldest first

vars == <<domains, clients, forwarded, queries, overTime, counters,
          privacylevel, ftlconf, setupVars, setupVarsArray, now, out, rd, rd2,
          blockingstatus, timer, requests>>

tables == <<domains, clients, forwarded, queries, overTime, counters>>

\* The configuration files.
files == <<ftlconf, setupVars>>

\* The state of /api/dns/status.
dns == <<blockingstatus, timer, requests>>

(***************************************************************************)
(* Accessors (datastructure.c): identifier i is element i + 1.             *)
(***************************************************************************)
getDomain(domainID) == domains[domainID + 1]
getClient(clientID) == clients[clientID + 1]
getForward(forwardID) == forwarded[forwardID + 1]
getQuery(queryID) == queries[queryID + 1]

\* counters->domains, ->clients, ->forwarded, ->queries: the element counts.
counters_domains == Len(domains)
counters_clients == Len(clients)
counters_forwarded == Len(forwarded)
counters_queries == Len(queries)

min(a, b) == IF a < b THEN a ELSE b

isBlockedStatus(status) ==
    status \in {QUERY_GRAVITY, QUERY_WILDCARD, QUERY_BLACKLIST}

(***************************************************************************)
(* The writer (the resolver's ingest path): one query is logged, its       *)
(* domain, client and upstream are found or created, and every counter it  *)
(* belongs to is raised.  The strings are anonymised at record time        *)
(* according to the privacy level then in force.  A query may be logged    *)
(* before its fate is known (status unknown) and updated later.            *)
(***************************************************************************)
\* Position (1-based) of the first entry with that string, or 0 when there is none.
findDomainPos(str) ==
    IF \E i \in 1..Len(domains) : domains[i].domain = str
    THEN CHOOSE i \in 1..Len(domains) :
            /\ domains[i].domain = str
            /\ \A j \in 1..(i - 1) : domains[j].domain # str
    ELSE 0

findClientPos(str) ==
    IF \E i \in 1..Len(clients) : clients[i].ip = str
    THEN CHOOSE i \in 1..Len(clients) :
            /\ clients[i].ip = str
            /\ \A j \in 1..(i - 1) : clients[j].ip # str
    ELSE 0

findForwardPos(str) ==
    IF \E i \in 1..Len(forwarded) : forwarded[i].ip = str
    THEN CHOOSE i \in 1..Len(forwarded) :
            /\ forwarded[i].ip = str
            /\ \A j \in 1..(i - 1) : forwarded[j].ip # str
    ELSE 0

slotOf(t) == t \div OVERTIME_INTERVAL

ZeroSlots == [s \in 0..(OVERTIME_SLOTS - 1) |-> 0]

\* The status counts as blocked in the counters.
countsAsBlocked(status) ==
    isBlockedStatus(status) \/ status = QUERY_EXTERNAL_BLOCKED

NewQuery(dname, cip, cname, fip, status, type, response) ==
    LET dstr == IF privacylevel >= PRIVACY_HIDE_DOMAINS THEN HIDDEN_DOMAIN ELSE dname
        hidec == privacylevel >= PRIVACY_HIDE_DOMAINS_CLIENTS
        istr == IF hidec THEN HIDDEN_CLIENT ELSE cip
        nstr == IF hidec THEN "" ELSE cname
        b == IF countsAsBlocked(status) THEN 1 ELSE 0
        slot == slotOf(now)
        dpos == findDomainPos(dstr)
        cpos == findClientPos(istr)
        fpos == findForwardPos(fip)
        dnew == IF dpos = 0 THEN Len(domains) + 1 ELSE dpos
        cnew == IF cpos = 0 THEN Len(clients) + 1 ELSE cpos
        fnew == IF fpos = 0 THEN Len(forwarded) + 1 ELSE fpos
        d0 == IF dpos = 0 THEN [domain |-> dstr, count |-> 0, blockedcount |-> 0]
              ELSE domains[dpos]
        c0 == IF cpos = 0
              THEN [ip |-> istr, name |-> nstr, count |-> 0, blockedcount |-> 0,
                    overTime |-> ZeroSlots]
              ELSE clients[cpos]
        f0 == IF fpos = 0 THEN [ip |-> fip, name |-> "", count |-> 0]
              ELSE forwarded[fpos]
        d1 == [d0 EXCEPT !.count = @ + 1, !.blockedcount = @ + b]
        c1 == [c0 EXCEPT !.count = @ + 1, !.blockedcount = @ + b,
                         !.overTime[slot] = @ + 1]
        f1 == [f0 EXCEPT !.count = @ + 1]
        fwd == status = QUERY_FORWARDED
    IN  /\ slot < OVERTIME_SLOTS
        /\ domains' = IF dpos = 0 THEN Append(domains, d1)
                      ELSE [domains EXCEPT ![dpos] = d1]
        /\ clients' = IF cpos = 0 THEN Append(clients, c1)
                      ELSE [clients EXCEPT ![cpos] = c1]
        /\ forwarded' = IF ~fwd THEN forwarded
                        ELSE IF fpos = 0 THEN Append(forwarded, f1)
                        ELSE [forwarded EXCEPT ![fpos] = f1]
        /\ queries' = Append(queries,
                        [timestamp |-> now, type |-> type, status |-> status,
                         domainID |-> dnew - 1, clientID |-> cnew - 1,
                         forwardID |-> IF fwd THEN fnew - 1 ELSE -1,
                         privacylevel |-> privacylevel, response |-> response])
        /\ overTime' = [overTime EXCEPT ![slot].total = @ + 1,
                                        ![slot].blocked = @ + b]
        /\ counters' = [counters EXCEPT
                          !.blocked = @ + b,
                          !.cached = @ + (IF status = QUERY_CACHE THEN 1 ELSE 0),
                          !.forwardedqueries = @ + (IF fwd THEN 1 ELSE 0)]

\* The fate of a logged query becomes known: its status and its response time
\* are set, and the counters the status belongs to are raised.
updateQuery(queryID, fip, status, response) ==
    LET query == getQuery(queryID)
        b == IF countsAsBlocked(status) THEN 1 ELSE 0
        fwd == status = QUERY_FORWARDED
        fpos == findForwardPos(fip)
        fnew == IF fpos = 0 THEN Len(forwarded) + 1 ELSE fpos
        f0 == IF fpos = 0 THEN [ip |-> fip, name |-> "", count |-> 0]
              ELSE forwarded[fpos]
        f1 == [f0 EXCEPT !.count = @ + 1]
        slot == slotOf(query.timestamp)
    IN  /\ query.status = QUERY_UNKNOWN
        /\ status # QUERY_UNKNOWN
        /\ queries' = [queries EXCEPT
                         ![queryID + 1].status = status,
                         ![queryID + 1].response = response,
                         ![queryID + 1].forwardID = IF fwd THEN fnew - 1 ELSE -1]
        /\ domains' = [domains EXCEPT ![query.domainID + 1].blockedcount = @ + b]
        /\ clients' = [clients EXCEPT ![query.clientID + 1].blockedcount = @ + b]
        /\ forwarded' = IF ~fwd THEN forwarded
                        ELSE IF fpos = 0 THEN Append(forwarded, f1)
                        ELSE [forwarded EXCEPT ![fpos] = f1]
        /\ overTime' = [overTime EXCEPT ![slot].blocked = @ + b]
        /\ counters' = [counters EXCEPT
                          !.blocked = @ + b,
                          !.cached = @ + (IF status = QUERY_CACHE THEN 1 ELSE 0),
                          !.forwardedqueries = @ + (IF fwd THEN 1 ELSE 0)]

(***************************************************************************)
(* setupVars.c.  setupVars holds, per key, the value (a list value is the  *)
(* sequence of its comma-separated entries) and, in "unset", the keys that *)
(* read_setupVarsconf() answers with NULL.                                 *)
(***************************************************************************)
\* read_setupVarsconf(key) != NULL
isSet(key) == key \notin setupVars.unset

read_setupVarsconf(key) == setupVars[key]

\* getSetupVarsArray(input): the entries of input are appended to the array.
getSetupVarsArray(array, input) == array \o input

\* clearSetupVarsArray(): the array is emptied.
clearSetupVarsArray == <<>>

\* insetupVarsArray(str): exact match against an entry of the array.
insetupVarsArray(array, str) == \E i \in 1..Len(array) : array[i] = str

\* config.c: get_privacy_level(NULL) reads PRIVACYLEVEL from pihole-FTL.conf
\* and stores it in config.privacylevel; this is the level it leaves there.
get_privacy_level == ftlconf.PRIVACYLEVEL

(***************************************************************************)
(* The initial state: empty tables, nothing hidden, nothing excluded.      *)
(***************************************************************************)
\* quiet: nothing the call reads was changed by anybody else while it ran.
NoCall ==
    [call |-> "none", blocked |-> FALSE, hasnum |-> FALSE, num |-> 0,
     rows |-> <<>>, clients |-> <<>>, scanned |-> 0, quiet |-> TRUE]

Idle == [pc |-> "idle"]

\* No request is being served: a request is taken up or a configuration file
\* edited between two responses.
Ready == rd.pc = "idle" /\ out = NoCall

\* The call in progress, if any, has been overtaken by a change of what it
\* reads.
disturbed == IF rd.pc \in {"idle", "crashed"} THEN rd ELSE [rd EXCEPT !.quiet = FALSE]

\* The call has run into a memory fault: the process is gone.
crashed == [rd EXCEPT !.pc = "crashed"]

Init ==
    /\ domains = <<>>
    /\ clients = <<>>
    /\ forwarded = <<>>
    /\ queries = <<>>
    /\ overTime = [s \in 0..(OVERTIME_SLOTS - 1) |->
                     [timestamp |-> s * OVERTIME_INTERVAL, total |-> 0, blocked |-> 0]]
    /\ counters = [blocked |-> 0, cached |-> 0, forwardedqueries |-> 0]
    /\ privacylevel = PRIVACY_SHOW_ALL
    /\ ftlconf = [PRIVACYLEVEL |-> PRIVACY_SHOW_ALL]
    /\ setupVars = [API_EXCLUDE_DOMAINS |-> <<>>, API_EXCLUDE_CLIENTS |-> <<>>,
                    API_QUERY_LOG_SHOW |-> "",
                    unset |-> {"API_EXCLUDE_DOMAINS", "API_EXCLUDE_CLIENTS",
                               "API_QUERY_LOG_SHOW"}]
    /\ setupVarsArray = <<>>
    /\ now = 1
    /\ out = NoCall
    /\ rd = Idle
    /\ rd2 = "idle"
    /\ blockingstatus = TRUE
    /\ timer = [delay |-> -1, target |-> FALSE]
    /\ requests = <<>>

(***************************************************************************)
(* qsort() with cmpasc / cmpdesc.  An element is <<identifier, count>>     *)
(* (elem[0], elem[1] in C).  The comparison looks at the count alone, and  *)
(* qsort() leaves the order of elements that compare equal unspecified:    *)
(* every order the comparison allows is a possible result.                 *)
(***************************************************************************)
\* The value of an int read from memory the call does not own: it stands for
\* whichever int that memory holds, so a test of it has either outcome and a
\* comparison with it any result.  The model sets INT_MIN aside for it, which
\* no count of the tables is.
anyInt == INT_MIN

cmpasc(a, b) ==
    IF a[2] < b[2] THEN -1
    ELSE IF a[2] > b[2] THEN 1
    ELSE 0

\* cmpdesc with the two outcomes exchanged: it sorts upwards.
cmpdesc_ascending(a, b) ==
    IF a[2] > b[2] THEN 1
    ELSE IF a[2] < b[2] THEN -1
    ELSE 0

cmpdesc(a, b) ==
    IF a[2] > b[2] THEN -1
    ELSE IF a[2] < b[2] THEN 1
    ELSE 0

cmp(ascending, a, b) == IF ascending THEN cmpasc(a, b) ELSE cmpdesc(a, b)

\* The arrays qsort(temparray, n, sizeof(int[2]), cmp) can leave: the
\* rearrangements of temparray in which no element precedes one that the
\* comparison puts before it.  An element whose count is anyInt can come to
\* stand anywhere.
qsort(temparray, ascending) ==
    LET n == Len(temparray)
    IN  { s \in { [i \in 1..n |-> temparray[p[i]]] : p \in Permutations(1..n) } :
            \A i, j \in 1..n :
               (i < j /\ s[i][2] # anyInt /\ s[j][2] # anyInt)
                   => cmp(ascending, s[i], s[j]) <= 0 }

(***************************************************************************)
(* The per-call arrays.  temparray is declared with the element count read *)
(* at entry (rd.size rows), but every loop tests the current count.  An    *)
(* access at an index at or beyond rd.size is undefined behaviour: the     *)
(* call either faults there or goes on, a write then landing in the memory *)
(* behind the array (on other locals of the call, for one) and a read      *)
(* finding either what was written there or whatever that memory holds,    *)
(* such as the rows an earlier request left on the stack of the thread.    *)
(* rd.idx is the highest index accessed.                                   *)
(***************************************************************************)
\* What a row of memory behind the array may hold: any two ints.  The first
\* is used as an identifier: when it is none of the n the table holds, the
\* accessor finds no entity and the call faults, which is the fault the
\* reading step can end in; otherwise it is any of the n.  The second is the
\* count, any int.
garbage(n) == { <<id, anyInt>> : id \in 0..(n - 1) }

\* temparray[i] as a call reads it; size is the number of rows the array was
\* declared with, n the current element count.
readTemparray(temparray, i, size, n) ==
    IF i < size /\ i < Len(temparray) THEN {temparray[i + 1]}
    ELSE garbage(n) \cup (IF i < Len(temparray) THEN {temparray[i + 1]} ELSE {})

\* The rows 0 .. k-1 as qsort(temparray, n, ...) finds them.
RECURSIVE readRows(_, _, _, _)
readRows(temparray, k, size, n) ==
    IF k <= 0 THEN {<<>>}
    ELSE { r \o <<g>> : r \in readRows(temparray, k - 1, size, n),
                        g \in readTemparray(temparray, k - 1, size, n) }

\* The show flags the API_QUERY_LOG_SHOW filter gives (lines 228-242 and
\* 681-695).
showflags ==
    [permitted |-> ~ ( isSet("API_QUERY_LOG_SHOW")
                       /\ read_setupVarsconf("API_QUERY_LOG_SHOW")
                            \in {"blockedonly", "nothing"} ),
     blocked |-> ~ ( isSet("API_QUERY_LOG_SHOW")
                     /\ read_setupVarsconf("API_QUERY_LOG_SHOW")
                          \in {"permittedonly", "nothing"} )]

showpermitted == showflags.permitted
showblocked == showflags.blocked

max(a, b) == IF a > b THEN a ELSE b

(***************************************************************************)
(* api_stats_top_domains                                                   *)
(***************************************************************************)
\* Locals of api_stats_top_domains that the request can no longer set (the
\* parsing at lines 190-207 is commented out).
audit == FALSE
asc == FALSE

\* The audit list of the gravity database (in_auditlist() > 0).
auditlist == {}
in_auditlist(str) == IF str \in auditlist THEN 1 ELSE 0

\* topDomainsCounted testing ">= 0" where the source tests "> 0".
topDomainsCounted_withzero(value) == value >= 0

\* Lines 282 and 287: the test a count has to pass for the domain to be sent.
topDomainsCounted(value) == value > 0

\* Lines 265-279: the domain is skipped before being counted; excludedomains
\* is "excludedomains != NULL".
topDomainsSkip(domain, excludedomains, array) ==
    \/ excludedomains /\ insetupVarsArray(array, domain.domain)
    \/ audit /\ in_auditlist(domain.domain) > 0
    \/ domain.domain = HIDDEN_DOMAIN

\* domain->count - domain->blockedcount (lines 218, 287, 289) reads two fields
\* of the record, in an order the compiler chooses and without a lock, so the
\* resolver can change the record between the two reads.
Operands == {"count", "blockedcount"}

operand(domain, name) == IF name = "count" THEN domain.count ELSE domain.blockedcount

\* The difference, once the second field is read: first names the field read
\* first and reg is the value that was found there.
permitted(first, reg, domain) ==
    IF first = "count" THEN reg - domain.blockedcount ELSE domain.count - reg

\* What a finished call has sent; blocked is the parameter as the call held
\* it when it sent the reply.
topDomainsOut(blocked, rows, scanned, quiet) ==
    [call |-> "top_domains", blocked |-> blocked, hasnum |-> FALSE, num |-> 0,
     rows |-> rows, clients |-> <<>>, scanned |-> scanned, quiet |-> quiet]

\* Lines 170-181: temparray is declared with counters->domains rows.
api_stats_top_domains(blocked) ==
    /\ Ready
    /\ rd' = [pc |-> "td_privacy", call |-> "top_domains", quiet |-> TRUE,
              blocked |-> blocked, size |-> counters_domains,
              i |-> 0, n |-> 0, temparray |-> <<>>, rows |-> <<>>, idx |-> -1,
              shows |-> [permitted |-> TRUE, blocked |-> TRUE],
              excludedomains |-> FALSE, domainID |-> 0, first |-> "count", reg |-> 0]
    /\ UNCHANGED <<rd2, tables, privacylevel, files, setupVarsArray, now, dns, out>>

\* Lines 183-189: the privacy level is read anew, and the empty array is sent,
\* the call returning, when the level hides domains.
top_domains_privacy ==
    /\ rd.pc = "td_privacy"
    /\ privacylevel' = get_privacy_level
    /\ IF get_privacy_level >= PRIVACY_HIDE_DOMAINS
       THEN /\ out' = topDomainsOut(rd.blocked, <<>>, 0, rd.quiet)
            /\ rd' = Idle
       ELSE /\ rd' = [rd EXCEPT !.pc = "td_fill"]
            /\ out' = out
    /\ UNCHANGED <<rd2, tables, files, setupVarsArray, now, dns>>

\* The parameter blocked after a store to row i of temparray: a store behind
\* the array may land on it and leave either value there.
afterStore(blocked, i, size) == IF i < size THEN {blocked} ELSE BOOLEAN

\* Lines 208-218: the test of for(domainID = 0; domainID < counters->domains;
\* ...) and, in the pass, the identifier stored (line 213), blocked tested
\* (line 214) and the blocked count stored (line 215) or the first field of
\* the permitted count read (line 218).
top_domains_fill ==
    /\ rd.pc = "td_fill"
    /\ IF rd.i < counters_domains
       THEN \/ \E blocked \in afterStore(rd.blocked, rd.i, rd.size) :
                 IF blocked
                 THEN \E left \in afterStore(blocked, rd.i, rd.size) :
                         rd' = [rd EXCEPT
                                  !.temparray =
                                      Append(@, <<rd.i, getDomain(rd.i).blockedcount>>),
                                  !.blocked = left, !.idx = rd.i, !.i = @ + 1]
                 ELSE \E first \in Operands :
                         rd' = [rd EXCEPT !.blocked = blocked, !.idx = rd.i,
                                          !.first = first,
                                          !.reg = operand(getDomain(rd.i), first),
                                          !.pc = "td_fill_store"]
            \/ rd.i >= rd.size /\ rd' = [crashed EXCEPT !.idx = rd.i]
       ELSE rd' = [rd EXCEPT !.pc = "td_sort"]
    /\ UNCHANGED <<rd2, tables, privacylevel, files, setupVarsArray, now, dns, out>>

\* Line 218: the second field is read and the permitted count stored.
top_domains_fill_store ==
    /\ rd.pc = "td_fill_store"
    /\ \/ \E left \in afterStore(rd.blocked, rd.i, rd.size) :
            rd' = [rd EXCEPT
                     !.temparray = Append(@, <<rd.i, permitted(rd.first, rd.reg,
                                                               getDomain(rd.i))>>),
                     !.blocked = left, !.i = @ + 1, !.pc = "td_fill"]
       \/ rd.i >= rd.size /\ rd' = [crashed EXCEPT !.idx = rd.i]
    /\ UNCHANGED <<rd2, tables, privacylevel, files, setupVarsArray, now, dns, out>>

\* Lines 221-225: qsort(temparray, counters->domains, ...), which reads and
\* stores the rows 0 .. counters->domains - 1.
top_domains_sort ==
    /\ rd.pc = "td_sort"
    /\ LET n == counters_domains
       IN  \/ \E found \in readRows(rd.temparray, n, rd.size, n) :
                \E sorted \in qsort(found, asc) :
                   \E left \in afterStore(rd.blocked, n - 1, rd.size) :
                      rd' = [rd EXCEPT !.pc = "td_filter", !.temparray = sorted,
                                       !.blocked = left, !.idx = max(@, n - 1)]
           \/ n > rd.size /\ rd' = [crashed EXCEPT !.idx = n - 1]
    /\ UNCHANGED <<rd2, tables, privacylevel, files, setupVarsArray, now, dns, out>>

\* Lines 228-243: the show filter is read and the shared array cleared.
top_domains_filter ==
    /\ rd.pc = "td_filter"
    /\ setupVarsArray' = clearSetupVarsArray
    /\ rd' = [rd EXCEPT !.pc = "td_exclude", !.shows = showflags]
    /\ UNCHANGED <<rd2, tables, privacylevel, files, now, dns, out>>

\* Lines 245-254: the excluded domains are parsed into the shared array.
top_domains_exclude ==
    /\ rd.pc = "td_exclude"
    /\ setupVarsArray' =
         IF ~audit /\ isSet("API_EXCLUDE_DOMAINS")
         THEN getSetupVarsArray(setupVarsArray, read_setupVarsconf("API_EXCLUDE_DOMAINS"))
         ELSE setupVarsArray
    /\ rd' = [rd EXCEPT !.pc = "td_scan", !.i = 0,
                        !.excludedomains = ~audit /\ isSet("API_EXCLUDE_DOMAINS")]
    /\ UNCHANGED <<rd2, tables, privacylevel, files, now, dns, out>>

\* Lines 300-302 after a pass that sent nothing more: the loop goes on unless
\* enough was counted.
top_domains_next ==
    [rd EXCEPT !.idx = max(@, rd.i), !.i = @ + 1,
               !.pc = IF rd.n = show THEN "td_send" ELSE "td_scan"]

\* Lines 258-287: the test of for(i = 0; i < counters->domains; i++) and, in
\* the pass, the skips of lines 265-279 and the first read of the count: the
\* blocked count is tested (line 282), or the first field of the permitted
\* count is read (line 287).
top_domains_scan ==
    /\ rd.pc = "td_scan"
    /\ IF rd.i < counters_domains
       THEN \/ \E elem \in readTemparray(rd.temparray, rd.i, rd.size, counters_domains) :
                 LET domainID == elem[1]
                     domain == getDomain(domainID)
                 IN  IF topDomainsSkip(domain, rd.excludedomains, setupVarsArray)
                     THEN rd' = [rd EXCEPT !.idx = max(@, rd.i), !.i = @ + 1]
                     ELSE IF rd.blocked
                     THEN IF rd.shows.blocked /\ topDomainsCounted(domain.blockedcount)
                          THEN rd' = [rd EXCEPT !.idx = max(@, rd.i),
                                                !.domainID = domainID,
                                                !.pc = "td_count"]
                          ELSE rd' = top_domains_next
                     ELSE IF rd.shows.permitted
                          THEN \E first \in Operands :
                                  rd' = [rd EXCEPT !.idx = max(@, rd.i),
                                                   !.domainID = domainID,
                                                   !.first = first,
                                                   !.reg = operand(domain, first),
                                                   !.pc = "td_test"]
                          ELSE rd' = top_domains_next
            \/ rd.i >= rd.size /\ rd' = [crashed EXCEPT !.idx = rd.i]
       ELSE rd' = [rd EXCEPT !.pc = "td_send"]
    /\ UNCHANGED <<rd2, tables, privacylevel, files, setupVarsArray, now, dns, out>>

\* Line 287: the second field is read and the permitted count tested.
top_domains_test ==
    /\ rd.pc = "td_test"
    /\ IF topDomainsCounted(permitted(rd.first, rd.reg, getDomain(rd.domainID)))
       THEN rd' = [rd EXCEPT !.pc = "td_count"]
       ELSE rd' = top_domains_next
    /\ UNCHANGED <<rd2, tables, privacylevel, files, setupVarsArray, now, dns, out>>

\* The count is added to the reply unless it is below 0 (lines 292-298), and
\* the loop ends when enough domains were counted (lines 300-302).
top_domains_item(count) ==
    [rd EXCEPT !.n = @ + 1,
               !.i = @ + 1,
               !.rows = IF count > -1
                        THEN Append(@, [domain |-> getDomain(rd.domainID).domain,
                                        count |-> count, id |-> rd.domainID])
                        ELSE @,
               !.pc = IF rd.n + 1 = show THEN "td_send" ELSE "td_scan"]

\* Lines 284 and 289: the count is read again for the reply: the blocked
\* count, or the first field of the permitted count.
top_domains_count ==
    /\ rd.pc = "td_count"
    /\ IF rd.blocked
       THEN rd' = top_domains_item(getDomain(rd.domainID).blockedcount)
       ELSE \E first \in Operands :
               rd' = [rd EXCEPT !.first = first,
                                !.reg = operand(getDomain(rd.domainID), first),
                                !.pc = "td_count_permitted"]
    /\ UNCHANGED <<rd2, tables, privacylevel, files, setupVarsArray, now, dns, out>>

\* Line 289: the second field is read.
top_domains_count_permitted ==
    /\ rd.pc = "td_count_permitted"
    /\ rd' = top_domains_item(permitted(rd.first, rd.reg, getDomain(rd.domainID)))
    /\ UNCHANGED <<rd2, tables, privacylevel, files, setupVarsArray, now, dns, out>>

\* Lines 305-321: the shared array is cleared and the object is sent.
top_domains_send ==
    /\ rd.pc = "td_send"
    /\ setupVarsArray' = IF rd.excludedomains THEN clearSetupVarsArray ELSE setupVarsArray
    /\ out' = topDomainsOut(rd.blocked, rd.rows, Len(rd.temparray), rd.quiet)
    /\ rd' = Idle
    /\ UNCHANGED <<rd2, tables, privacylevel, files, now, dns>>

\* The call from the statement after its entry to its return.
top_domains_step ==
    \/ top_domains_privacy
    \/ top_domains_fill
    \/ top_domains_fill_store
    \/ top_domains_sort
    \/ top_domains_filter
    \/ top_domains_exclude
    \/ top_domains_scan
    \/ top_domains_test
    \/ top_domains_count
    \/ top_domains_count_permitted
    \/ top_domains_send

(***************************************************************************)
(* getTopClients                                                           *)
(***************************************************************************)
\* Locals of getTopClients that the request can no longer set (lines 344-372).
includezeroclients == FALSE
blockedonly == FALSE
topClientsAsc == FALSE

\* Line 411, ccount > 0: the outcomes of the test.
topClientsCounted(ccount) == IF ccount = anyInt THEN BOOLEAN ELSE {ccount > 0}

\* Lines 395-402; excludeclients is "excludeclients != NULL".
topClientsSkip(client, excludeclients, array) ==
    \/ excludeclients
         /\ (insetupVarsArray(array, client.ip) \/ insetupVarsArray(array, client.name))
    \/ client.ip = HIDDEN_CLIENT

\* The rows a finished call has sent; none when the call was denied.
topClientsOut(rows, scanned, quiet) ==
    [call |-> "top_clients", blocked |-> FALSE, hasnum |-> FALSE, num |-> 0,
     rows |-> rows, clients |-> <<>>, scanned |-> scanned, quiet |-> quiet]

\* Lines 324-326: temparray is declared with counters->clients rows.
getTopClients ==
    /\ Ready
    /\ rd' = [pc |-> "tc_privacy", call |-> "top_clients", quiet |-> TRUE,
              size |-> counters_clients, i |-> 0, n |-> 0,
              temparray |-> <<>>, rows |-> <<>>, idx |-> -1,
              excludeclients |-> FALSE]
    /\ UNCHANGED <<rd2, tables, privacylevel, files, setupVarsArray, now, dns, out>>

\* Lines 328-332: the privacy level is read anew, and the call returns before
\* any client is read when the level hides clients.
top_clients_privacy ==
    /\ rd.pc = "tc_privacy"
    /\ privacylevel' = get_privacy_level
    /\ IF get_privacy_level >= PRIVACY_HIDE_DOMAINS_CLIENTS
       THEN /\ out' = topClientsOut(<<>>, 0, rd.quiet)
            /\ rd' = Idle
       ELSE /\ rd' = [rd EXCEPT !.pc = "tc_fill"]
            /\ out' = out
    /\ UNCHANGED <<rd2, tables, files, setupVarsArray, now, dns>>

\* Lines 357-364: one pass of for(clientID = 0; clientID < counters->clients; ...).
top_clients_fill ==
    /\ rd.pc = "tc_fill"
    /\ IF rd.i < counters_clients
       THEN LET client == getClient(rd.i)
                elem == <<rd.i, IF blockedonly THEN client.blockedcount ELSE client.count>>
            IN  \/ rd' = [rd EXCEPT !.temparray = Append(@, elem),
                                    !.idx = rd.i, !.i = @ + 1]
                \/ rd.i >= rd.size /\ rd' = [crashed EXCEPT !.idx = rd.i]
       ELSE rd' = [rd EXCEPT !.pc = "tc_sort"]
    /\ UNCHANGED <<rd2, tables, privacylevel, files, setupVarsArray, now, dns, out>>

\* Lines 366-377: qsort(temparray, counters->clients, ...).
top_clients_sort ==
    /\ rd.pc = "tc_sort"
    /\ LET n == counters_clients
       IN  \/ \E found \in readRows(rd.temparray, n, rd.size, n) :
                \E sorted \in qsort(found, topClientsAsc) :
                   rd' = [rd EXCEPT !.pc = "tc_exclude", !.temparray = sorted,
                                    !.idx = max(@, n - 1)]
           \/ n > rd.size /\ rd' = [crashed EXCEPT !.idx = n - 1]
    /\ UNCHANGED <<rd2, tables, privacylevel, files, setupVarsArray, now, dns, out>>

\* Lines 379-384: the excluded clients are appended to the shared array.
top_clients_exclude ==
    /\ rd.pc = "tc_exclude"
    /\ setupVarsArray' =
         IF isSet("API_EXCLUDE_CLIENTS")
         THEN getSetupVarsArray(setupVarsArray, read_setupVarsconf("API_EXCLUDE_CLIENTS"))
         ELSE setupVarsArray
    /\ rd' = [rd EXCEPT !.pc = "tc_scan", !.i = 0,
                        !.excludeclients = isSet("API_EXCLUDE_CLIENTS")]
    /\ UNCHANGED <<rd2, tables, privacylevel, files, now, dns, out>>

\* Lines 386-419: one pass of for(i = 0; i < counters->clients; i++); the line
\* of a client is sent within the pass (http_send, line 413).
top_clients_scan ==
    /\ rd.pc = "tc_scan"
    /\ IF rd.i < counters_clients
       THEN \/ \E elem \in readTemparray(rd.temparray, rd.i, rd.size, counters_clients) :
               \E counted \in topClientsCounted(elem[2]) :
                 LET clientID == elem[1]
                     ccount == elem[2]
                     client == getClient(clientID)
                     skip == topClientsSkip(client, rd.excludeclients, setupVarsArray)
                     send == ~skip /\ (includezeroclients \/ counted)
                     n1 == IF send THEN rd.n + 1 ELSE rd.n
                 IN  rd' = [rd EXCEPT
                              !.idx = max(@, rd.i),
                              !.i = @ + 1,
                              !.n = n1,
                              !.rows = IF send
                                       THEN Append(@, [n |-> rd.n, count |-> ccount,
                                                       ip |-> client.ip,
                                                       name |-> client.name,
                                                       id |-> clientID])
                                       ELSE @,
                              !.pc = IF ~skip /\ n1 = topClientsCount
                                     THEN "tc_return" ELSE "tc_scan"]
            \/ rd.i >= rd.size /\ rd' = [crashed EXCEPT !.idx = rd.i]
       ELSE rd' = [rd EXCEPT !.pc = "tc_return"]
    /\ UNCHANGED <<rd2, tables, privacylevel, files, setupVarsArray, now, dns, out>>

\* getTopClients resetting, on its return, the counts of the clients.
top_clients_return_resetting ==
    /\ rd.pc = "tc_return"
    /\ setupVarsArray' = IF rd.excludeclients THEN clearSetupVarsArray ELSE setupVarsArray
    /\ out' = topClientsOut(rd.rows, Len(rd.temparray), rd.quiet)
    /\ rd' = Idle
    /\ clients' = [i \in 1..counters_clients |-> [clients[i] EXCEPT !.count = 0]]
    /\ UNCHANGED <<rd2, domains, forwarded, queries, overTime, counters, privacylevel,
                   files, now, dns>>

\* Lines 421-423: the shared array is cleared and the call returns.
top_clients_return ==
    /\ rd.pc = "tc_return"
    /\ setupVarsArray' = IF rd.excludeclients THEN clearSetupVarsArray ELSE setupVarsArray
    /\ out' = topClientsOut(rd.rows, Len(rd.temparray), rd.quiet)
    /\ rd' = Idle
    /\ UNCHANGED <<rd2, tables, privacylevel, files, now, dns>>

top_clients_step ==
    \/ top_clients_privacy
    \/ top_clients_fill
    \/ top_clients_sort
    \/ top_clients_exclude
    \/ top_clients_scan
    \/ top_clients_return

(***************************************************************************)
(* api_stats_upstreams                                                     *)
(***************************************************************************)
\* Local of api_stats_upstreams (line 428).
sort == TRUE

\* Lines 426-429: temparray is declared with counters->forwarded rows.
api_stats_upstreams ==
    /\ Ready
    /\ rd' = [pc |-> "up_fill", call |-> "upstreams", quiet |-> TRUE,
              size |-> counters_forwarded, i |-> 0, temparray |-> <<>>,
              rows |-> <<>>, idx |-> -1]
    /\ UNCHANGED <<rd2, tables, privacylevel, files, setupVarsArray, now, dns, out>>

\* Lines 434-445: one pass of for(forwardID = 0; forwardID < counters->forwarded; ...).
upstreams_fill ==
    /\ rd.pc = "up_fill"
    /\ IF rd.i < counters_forwarded
       THEN IF sort
            THEN \/ rd' = [rd EXCEPT
                             !.temparray = Append(@, <<rd.i, getForward(rd.i).count>>),
                             !.idx = rd.i, !.i = @ + 1]
                 \/ rd.i >= rd.size /\ rd' = [crashed EXCEPT !.idx = rd.i]
            ELSE rd' = [rd EXCEPT !.i = @ + 1]
       ELSE rd' = [rd EXCEPT !.pc = "up_sort"]
    /\ UNCHANGED <<rd2, tables, privacylevel, files, setupVarsArray, now, dns, out>>

\* Lines 447-451: qsort(temparray, counters->forwarded, ...).
upstreams_sort ==
    /\ rd.pc = "up_sort"
    /\ LET n == counters_forwarded
       IN  IF sort
           THEN \/ \E found \in readRows(rd.temparray, n, rd.size, n) :
                     \E sorted \in qsort(found, FALSE) :
                        rd' = [rd EXCEPT !.pc = "up_row", !.temparray = sorted,
                                         !.idx = max(@, n - 1), !.i = -2]
                \/ n > rd.size /\ rd' = [crashed EXCEPT !.idx = n - 1]
           ELSE rd' = [rd EXCEPT !.pc = "up_row", !.i = -2]
    /\ UNCHANGED <<rd2, tables, privacylevel, files, setupVarsArray, now, dns, out>>

\* Lines 457-505: the row of loop index i for the upstream forwardID, <<>>
\* when none is sent.
upstreamsRow(i, forwardID) ==
    LET row == IF i = -2
               THEN [name |-> "blocklist", ip |-> "blocklist",
                     count |-> counters.blocked, id |-> -2]
               ELSE IF i = -1
               THEN [name |-> "cache", ip |-> "cache",
                     count |-> counters.cached, id |-> -1]
               ELSE [name |-> getForward(forwardID).name, ip |-> getForward(forwardID).ip,
                     count |-> getForward(forwardID).count, id |-> forwardID]
    IN  IF row.count > 0 \/ i < 0 THEN <<row>> ELSE <<>>

\* Lines 453-506: one pass of for(i = -2; i < min(counters->forwarded, 8); i++).
upstreams_row ==
    /\ rd.pc = "up_row"
    /\ IF rd.i < min(counters_forwarded, upstreamsShown)
       THEN IF rd.i < 0 \/ ~sort
            THEN rd' = [rd EXCEPT !.rows = @ \o upstreamsRow(rd.i, rd.i), !.i = @ + 1]
            ELSE \/ \E elem \in readTemparray(rd.temparray, rd.i, rd.size, counters_forwarded) :
                      rd' = [rd EXCEPT !.rows = @ \o upstreamsRow(rd.i, elem[1]),
                                       !.idx = max(@, rd.i), !.i = @ + 1]
                 \/ rd.i >= rd.size /\ rd' = [crashed EXCEPT !.idx = rd.i]
       ELSE rd' = [rd EXCEPT !.pc = "up_send"]
    /\ UNCHANGED <<rd2, tables, privacylevel, files, setupVarsArray, now, dns, out>>

\* Lines 507-512: the object is sent.
upstreams_send ==
    /\ rd.pc = "up_send"
    /\ out' = [call |-> "upstreams", blocked |-> FALSE, hasnum |-> FALSE, num |-> 0,
               rows |-> rd.rows, clients |-> <<>>, scanned |-> Len(rd.temparray),
               quiet |-> rd.quiet]
    /\ rd' = Idle
    /\ UNCHANGED <<rd2, tables, privacylevel, files, setupVarsArray, now, dns>>

upstreams_step ==
    \/ upstreams_fill
    \/ upstreams_sort
    \/ upstreams_row
    \/ upstreams_send

(***************************************************************************)
(* api_stats_overTime_history                                              *)
(***************************************************************************)
Slots == 0..(OVERTIME_SLOTS - 1)

\* slotHasData taking every slot for one that holds data.
slotHasData_all(slot, mintime) == TRUE

\* Lines 131-132 and 929-930: the test the first loop stops at.
slotHasData(slot, mintime) ==
    /\ (overTime[slot].total > 0 \/ overTime[slot].blocked > 0)
    /\ overTime[slot].timestamp >= mintime

\* Lines 143 and 945: the test the second loop stops at.
untilReached(slot) == overTime[slot].timestamp >= now

historyOut(rows, scanned, quiet) ==
    [call |-> "overTime_history", blocked |-> FALSE, hasnum |-> FALSE, num |-> 0,
     rows |-> rows, clients |-> <<>>, scanned |-> scanned, quiet |-> quiet]

\* Lines 122-126.
api_stats_overTime_history ==
    /\ Ready
    /\ rd' = [pc |-> "oh_from", call |-> "overTime_history", quiet |-> TRUE,
              mintime |-> overTime[0].timestamp, from |-> 0, until |-> OVERTIME_SLOTS,
              found |-> FALSE, slot |-> 0, total |-> 0, rows |-> <<>>]
    /\ UNCHANGED <<rd2, tables, privacylevel, files, setupVarsArray, now, dns, out>>

\* Lines 128-138: one pass of the loop that looks for the first slot with data.
overTime_history_from ==
    /\ rd.pc = "oh_from"
    /\ IF rd.slot < OVERTIME_SLOTS
       THEN IF slotHasData(rd.slot, rd.mintime)
            THEN rd' = [rd EXCEPT !.from = rd.slot, !.found = TRUE,
                                  !.pc = "oh_until", !.slot = 0]
            ELSE rd' = [rd EXCEPT !.slot = @ + 1]
       ELSE rd' = [rd EXCEPT !.pc = "oh_until", !.slot = 0]
    /\ UNCHANGED <<rd2, tables, privacylevel, files, setupVarsArray, now, dns, out>>

\* Lines 140-156: one pass of the loop that looks for the first slot at or
\* after time(NULL); when it ends and no slot holds data, the empty array is
\* sent and the call returns.
overTime_history_until ==
    /\ rd.pc = "oh_until"
    /\ LET done == ~(rd.slot < OVERTIME_SLOTS) \/ untilReached(rd.slot)
           untl == IF rd.slot < OVERTIME_SLOTS THEN rd.slot ELSE rd.until
       IN  IF ~done
           THEN rd' = [rd EXCEPT !.slot = @ + 1] /\ out' = out
           ELSE IF ~rd.found
           THEN rd' = Idle /\ out' = historyOut(<<>>, OVERTIME_SLOTS, rd.quiet)
           ELSE /\ rd' = [rd EXCEPT !.until = untl, !.pc = "oh_total", !.slot = rd.from]
                /\ out' = out
    /\ UNCHANGED <<rd2, tables, privacylevel, files, setupVarsArray, now, dns>>

\* Lines 159-163: the loop test, and the timestamp and the total of the slot
\* are read; after the last slot the array is sent (line 167).
overTime_history_total ==
    /\ rd.pc = "oh_total"
    /\ IF rd.slot < rd.until
       THEN rd' = [rd EXCEPT !.total = overTime[rd.slot].total, !.pc = "oh_blocked"]
              /\ out' = out
       ELSE rd' = Idle /\ out' = historyOut(rd.rows, OVERTIME_SLOTS, rd.quiet)
    /\ UNCHANGED <<rd2, tables, privacylevel, files, setupVarsArray, now, dns>>

\* Lines 164-165: the blocked count of the slot is read and the item added.
overTime_history_blocked ==
    /\ rd.pc = "oh_blocked"
    /\ rd' = [rd EXCEPT
                !.rows = Append(@, [slot |-> rd.slot,
                                    timestamp |-> overTime[rd.slot].timestamp,
                                    total |-> rd.total,
                                    blocked |-> overTime[rd.slot].blocked]),
                !.slot = @ + 1, !.pc = "oh_total"]
    /\ UNCHANGED <<rd2, tables, privacylevel, files, setupVarsArray, now, dns, out>>

overTime_history_step ==
    \/ overTime_history_from
    \/ overTime_history_until
    \/ overTime_history_total
    \/ overTime_history_blocked

(***************************************************************************)
(* api_stats_overTime_clients                                              *)
(***************************************************************************)
\* overTimeClientsDenied testing the wrong level.
overTimeClientsDenied_maximum(level) == level >= PRIVACY_MAXIMUM

\* Line 920: the level at which the call is denied.
overTimeClientsDenied(level) == level >= PRIVACY_HIDE_DOMAINS_CLIENTS

overTimeClientsOut(rows, list, scanned, quiet) ==
    [call |-> "overTime_clients", blocked |-> FALSE, hasnum |-> FALSE, num |-> 0,
     rows |-> rows, clients |-> list, scanned |-> scanned, quiet |-> quiet]

\* Lines 914-924: the privacy level is read anew; the empty object is sent,
\* and the call returns, before any slot or client is read when the level
\* hides clients.
api_stats_overTime_clients ==
    /\ Ready
    /\ privacylevel' = get_privacy_level
    /\ IF overTimeClientsDenied(get_privacy_level)
       THEN /\ out' = overTimeClientsOut(<<>>, <<>>, 0, TRUE)
            /\ rd' = rd
       ELSE /\ rd' = [pc |-> "oc_sendit", call |-> "overTime_clients", quiet |-> TRUE,
                      sendit |-> -1, until |-> OVERTIME_SLOTS, slot |-> 0,
                      clientID |-> 0, size |-> 0, skipclient |-> <<>>, idx |-> -1,
                      excludeclients |-> FALSE, data |-> <<>>, rows |-> <<>>,
                      clients |-> <<>>, scanned |-> 0]
            /\ out' = out
    /\ UNCHANGED <<rd2, tables, files, setupVarsArray, now, dns>>

\* Lines 926-940: one pass of the loop that looks for the first slot with
\* data; when it ends without one, the empty object is sent and the call
\* returns.
overTime_clients_sendit ==
    /\ rd.pc = "oc_sendit"
    /\ IF rd.slot < OVERTIME_SLOTS
       THEN /\ IF slotHasData(rd.slot, overTime[0].timestamp)
               THEN rd' = [rd EXCEPT !.sendit = rd.slot, !.pc = "oc_until", !.slot = 0,
                                     !.scanned = @ + 1]
               ELSE rd' = [rd EXCEPT !.slot = @ + 1, !.scanned = @ + 1]
            /\ out' = out
       ELSE /\ rd' = Idle
            /\ out' = overTimeClientsOut(<<>>, <<>>, rd.scanned, rd.quiet)
    /\ UNCHANGED <<rd2, tables, privacylevel, files, setupVarsArray, now, dns>>

\* Lines 942-950: one pass of the loop that looks for the first slot at or
\* after time(NULL).
overTime_clients_until ==
    /\ rd.pc = "oc_until"
    /\ IF rd.slot < OVERTIME_SLOTS
       THEN IF untilReached(rd.slot)
            THEN rd' = [rd EXCEPT !.until = rd.slot, !.pc = "oc_exclude"]
            ELSE rd' = [rd EXCEPT !.slot = @ + 1]
       ELSE rd' = [rd EXCEPT !.pc = "oc_exclude"]
    /\ UNCHANGED <<rd2, tables, privacylevel, files, setupVarsArray, now, dns, out>>

\* Lines 952-957: API_EXCLUDE_CLIENTS is read and skipclient is declared with
\* counters->clients entries.
overTime_clients_exclude ==
    /\ rd.pc = "oc_exclude"
    /\ rd' = [rd EXCEPT
                !.size = counters_clients,
                !.excludeclients = isSet("API_EXCLUDE_CLIENTS"),
                !.pc = "oc_memset"]
    /\ UNCHANGED <<rd2, tables, privacylevel, files, setupVarsArray, now, dns, out>>

\* Lines 958-962: memset() sets counters->clients entries, as many as there
\* are clients by now, to false, and the excluded clients are appended to the
\* shared array.
overTime_clients_memset ==
    /\ rd.pc = "oc_memset"
    /\ LET n == counters_clients
       IN  \/ /\ rd' = [rd EXCEPT
                          !.skipclient = [c \in 1..rd.size |-> FALSE],
                          !.idx = max(@, n - 1),
                          !.clientID = 0,
                          !.slot = rd.sendit,
                          !.pc = IF rd.excludeclients THEN "oc_skip" ELSE "oc_slot"]
              /\ setupVarsArray' =
                   IF rd.excludeclients
                   THEN getSetupVarsArray(setupVarsArray,
                                          read_setupVarsconf("API_EXCLUDE_CLIENTS"))
                   ELSE setupVarsArray
           \/ /\ n > rd.size
              /\ rd' = [crashed EXCEPT !.idx = n - 1]
              /\ setupVarsArray' = setupVarsArray
    /\ UNCHANGED <<rd2, tables, privacylevel, files, now, dns, out>>

\* Lines 964-972: one pass of for(clientID = 0; clientID < counters->clients; ...).
\* A write of skipclient[clientID] at or beyond its length is undefined.
overTime_clients_skip ==
    /\ rd.pc = "oc_skip"
    /\ IF rd.clientID < counters_clients
       THEN LET client == getClient(rd.clientID)
                hit == \/ insetupVarsArray(setupVarsArray, client.ip)
                       \/ insetupVarsArray(setupVarsArray, client.name)
            IN  IF ~hit THEN rd' = [rd EXCEPT !.clientID = @ + 1]
                ELSE IF rd.clientID < rd.size
                THEN rd' = [rd EXCEPT !.skipclient[rd.clientID + 1] = TRUE,
                                      !.idx = max(@, rd.clientID), !.clientID = @ + 1]
                ELSE \/ rd' = [rd EXCEPT !.idx = max(@, rd.clientID), !.clientID = @ + 1]
                     \/ rd' = [crashed EXCEPT !.idx = rd.clientID]
       ELSE rd' = [rd EXCEPT !.pc = "oc_slot", !.clientID = 0]
    /\ UNCHANGED <<rd2, tables, privacylevel, files, setupVarsArray, now, dns, out>>

\* skipclient[clientID] as the call reads it: beyond the length of the array
\* it is whatever the memory there holds.
readSkipclient(skipclient, clientID) ==
    IF clientID < Len(skipclient) THEN {skipclient[clientID + 1]} ELSE BOOLEAN

\* Lines 976-982: the test of the main loop.  The timestamp of the slot, read
\* at line 979, never changes, so it is put into the item when that is added.
overTime_clients_slot ==
    /\ rd.pc = "oc_slot"
    /\ IF rd.slot < rd.until
       THEN rd' = [rd EXCEPT !.data = <<>>, !.clientID = 0, !.pc = "oc_data"]
       ELSE rd' = [rd EXCEPT !.clientID = 0, !.pc = "oc_list"]
    /\ UNCHANGED <<rd2, tables, privacylevel, files, setupVarsArray, now, dns, out>>

\* Lines 984-996: one pass of the loop over the clients of a slot; after the
\* last client the item of the slot is added.
overTime_clients_data ==
    /\ rd.pc = "oc_data"
    /\ IF rd.clientID < counters_clients
       THEN \/ \E skip \in readSkipclient(rd.skipclient, rd.clientID) :
                 rd' = [rd EXCEPT
                          !.data = IF skip THEN @
                                   ELSE Append(@, getClient(rd.clientID).overTime[rd.slot]),
                          !.idx = max(@, rd.clientID),
                          !.clientID = @ + 1]
            \/ rd.clientID >= rd.size /\ rd' = [crashed EXCEPT !.idx = rd.clientID]
       ELSE rd' = [rd EXCEPT
                     !.rows = Append(@, [slot |-> rd.slot,
                                         timestamp |-> overTime[rd.slot].timestamp,
                                         data |-> rd.data]),
                     !.slot = @ + 1, !.pc = "oc_slot"]
    /\ UNCHANGED <<rd2, tables, privacylevel, files, setupVarsArray, now, dns, out>>

\* Lines 1001-1018: one pass of the loop that lists the clients.
overTime_clients_list ==
    /\ rd.pc = "oc_list"
    /\ IF rd.clientID < counters_clients
       THEN \/ \E skip \in readSkipclient(rd.skipclient, rd.clientID) :
                 rd' = [rd EXCEPT
                          !.clients = IF skip THEN @
                                      ELSE Append(@, [name |-> getClient(rd.clientID).name,
                                                      ip |-> getClient(rd.clientID).ip,
                                                      id |-> rd.clientID]),
                          !.idx = max(@, rd.clientID),
                          !.clientID = @ + 1]
            \/ rd.clientID >= rd.size /\ rd' = [crashed EXCEPT !.idx = rd.clientID]
       ELSE rd' = [rd EXCEPT !.pc = "oc_send"]
    /\ UNCHANGED <<rd2, tables, privacylevel, files, setupVarsArray, now, dns, out>>

\* Lines 1020-1023: the shared array is cleared and the object is sent.
overTime_clients_send ==
    /\ rd.pc = "oc_send"
    /\ setupVarsArray' = IF rd.excludeclients THEN clearSetupVarsArray ELSE setupVarsArray
    /\ out' = overTimeClientsOut(rd.rows, rd.clients, rd.scanned, rd.quiet)
    /\ rd' = Idle
    /\ UNCHANGED <<rd2, tables, privacylevel, files, now, dns>>

overTime_clients_step ==
    \/ overTime_clients_sendit
    \/ overTime_clients_until
    \/ overTime_clients_exclude
    \/ overTime_clients_memset
    \/ overTime_clients_skip
    \/ overTime_clients_slot
    \/ overTime_clients_data
    \/ overTime_clients_list
    \/ overTime_clients_send

(***************************************************************************)
(* getAllQueries                                                           *)
(***************************************************************************)
\* datastructure.c: the strings of a query, "hidden" according to the privacy
\* level at the time the query was made (see the comment at lines 751-752).
getDomainString(queryID) ==
    IF getQuery(queryID).privacylevel < PRIVACY_HIDE_DOMAINS
    THEN getDomain(getQuery(queryID).domainID).domain
    ELSE HIDDEN_DOMAIN

getClientIPString(queryID) ==
    IF getQuery(queryID).privacylevel < PRIVACY_HIDE_DOMAINS_CLIENTS
    THEN getClient(getQuery(queryID).clientID).ip
    ELSE HIDDEN_CLIENT

getClientNameString(queryID) ==
    IF getQuery(queryID).privacylevel < PRIVACY_HIDE_DOMAINS_CLIENTS
    THEN getClient(getQuery(queryID).clientID).name
    ELSE HIDDEN_CLIENT

\* a - b in int arithmetic, for a >= 0: a difference above INT_MAX wraps
\* around to a - b - 2^32.
sub32(a, b) ==
    IF b < 0 /\ a > INT_MAX + b THEN (a + INT_MIN) + (INT_MIN - b) ELSE a - b

\* Lines 670-679: the first index of the scan; num is what "(%i)" parsed.
ibeg(hasnum, num) ==
    IF hasnum
    THEN (IF sub32(counters_queries, num) < 0 THEN 0 ELSE sub32(counters_queries, num))
    ELSE 0

\* allQueriesSkip without the test of the record's privacy level (line 702).
allQueriesSkip_nolevel(query, shows) ==
    \/ query.type >= TYPE_MAX
    \/ isBlockedStatus(query.status) /\ ~shows.blocked
    \/ query.status \in {QUERY_FORWARDED, QUERY_CACHE} /\ ~shows.permitted

\* Lines 700-749: the record is passed over; shows holds the locals
\* showpermitted and showblocked.
allQueriesSkip(query, shows) ==
    \/ query.privacylevel >= PRIVACY_MAXIMUM
    \/ query.type >= TYPE_MAX
    \/ isBlockedStatus(query.status) /\ ~shows.blocked
    \/ query.status \in {QUERY_FORWARDED, QUERY_CACHE} /\ ~shows.permitted
    \/ (from > query.timestamp /\ from # 0) \/ (query.timestamp > until /\ until # 0)
    \/ filterdomainname /\ query.domainID # domainid
    \/ filterclientname /\ query.clientID # clientid
    \/ querytype # 0 /\ querytype # query.type
    \/ /\ filterforwarddest
       /\ IF forwarddestid = -2 /\ ~isBlockedStatus(query.status) THEN TRUE
          ELSE IF forwarddestid = -1 /\ query.status # QUERY_CACHE THEN TRUE
          ELSE forwarddestid >= 0 /\ forwarddestid # query.forwardID

\* allQueriesDelay testing ">=" where the source tests ">".
allQueriesDelay_inclusive(response) == IF response >= DELAY_CEILING THEN 0 ELSE response

\* Lines 764-767.
allQueriesDelay(response) == IF response > DELAY_CEILING THEN 0 ELSE response

\* Lines 751-772: the line sent for a record; response is the latency the
\* record held when line 764 read it.
allQueriesRow(queryID, response) ==
    LET query == getQuery(queryID)
        client == getClient(query.clientID)
    IN  [timestamp |-> query.timestamp,
         qtype |-> querytypes[query.type + 1],
         domain |-> getDomainString(queryID),
         client |-> IF client.name # "" THEN getClientNameString(queryID)
                    ELSE getClientIPString(queryID),
         status |-> query.status,
         delay |-> allQueriesDelay(response),
         response |-> response,
         queryID |-> queryID]

\* Lines 698-773 run from queryID on with nothing changing in between.
RECURSIVE allQueriesLoop(_, _)
allQueriesLoop(queryID, shows) ==
    IF ~(queryID < counters_queries) THEN <<>>
    ELSE (IF allQueriesSkip(getQuery(queryID), shows) THEN <<>>
          ELSE <<allQueriesRow(queryID, getQuery(queryID).response)>>)
         \o allQueriesLoop(queryID + 1, shows)

\* What a call sends when nothing changes while it runs; nothing at the
\* maximum privacy level (lines 532-535).
allQueriesRows(hasnum, num) ==
    IF get_privacy_level >= PRIVACY_MAXIMUM THEN <<>>
    ELSE allQueriesLoop(ibeg(hasnum, num), showflags)

\* total is counters->queries as line 676 read it.
allQueriesOut(request, total, rows, scanned, quiet) ==
    [call |-> "getAllQueries", blocked |-> FALSE, hasnum |-> request.hasnum,
     num |-> request.num, rows |-> rows, clients |-> <<>>, scanned |-> scanned,
     quiet |-> quiet, forwarddest |-> request.forwarddest, total |-> total]

\* Lines 530-535 for a request: hasnum and num are what "(%i)" parses,
\* forwarddest the destination of ">getallqueries-forward <dest>" ("" when
\* the request names none; its parsing at lines 570-608 is commented out, so
\* filterforwarddest stays false and the destination is not looked at).
\* The privacy level is read anew and the call returns at the maximum level.
getAllQueriesRequest(request) ==
    /\ Ready
    /\ privacylevel' = get_privacy_level
    /\ IF get_privacy_level >= PRIVACY_MAXIMUM
       THEN /\ out' = allQueriesOut(request, counters_queries, <<>>, 0, TRUE)
            /\ rd' = rd
       ELSE /\ rd' = [pc |-> "aq_ibeg", call |-> "getAllQueries", quiet |-> TRUE,
                      request |-> request, total |-> 0, queryID |-> 0,
                      shows |-> [permitted |-> TRUE, blocked |-> TRUE],
                      rows |-> <<>>, scanned |-> 0, response |-> 0]
            /\ out' = out
    /\ UNCHANGED <<rd2, tables, files, setupVarsArray, now, dns>>

getAllQueries(hasnum, num) ==
    getAllQueriesRequest([hasnum |-> hasnum, num |-> num, forwarddest |-> ""])

getAllQueriesForward(forwarddest) ==
    getAllQueriesRequest([hasnum |-> FALSE, num |-> 0, forwarddest |-> forwarddest])

\* Lines 670-679: the number of entries is parsed and ibeg computed from
\* counters->queries.
all_queries_ibeg ==
    /\ rd.pc = "aq_ibeg"
    /\ rd' = [rd EXCEPT !.pc = "aq_filter", !.total = counters_queries,
                        !.queryID = ibeg(rd.request.hasnum, rd.request.num)]
    /\ UNCHANGED <<rd2, tables, privacylevel, files, setupVarsArray, now, dns, out>>

\* Lines 681-696: the show filter is read and the shared array cleared.
all_queries_filter ==
    /\ rd.pc = "aq_filter"
    /\ setupVarsArray' = clearSetupVarsArray
    /\ rd' = [rd EXCEPT !.pc = "aq_test", !.shows = showflags]
    /\ UNCHANGED <<rd2, tables, privacylevel, files, now, dns, out>>

\* Lines 698-749: the loop test and the tests a record has to pass.
all_queries_test ==
    /\ rd.pc = "aq_test"
    /\ IF rd.queryID < counters_queries
       THEN IF allQueriesSkip(getQuery(rd.queryID), rd.shows)
            THEN rd' = [rd EXCEPT !.queryID = @ + 1, !.scanned = @ + 1]
            ELSE rd' = [rd EXCEPT !.pc = "aq_delay", !.scanned = @ + 1]
       ELSE rd' = [rd EXCEPT !.pc = "aq_return"]
    /\ UNCHANGED <<rd2, tables, privacylevel, files, setupVarsArray, now, dns, out>>

\* Lines 751-767: the strings of the record are fetched and its latency is
\* read.
all_queries_delay ==
    /\ rd.pc = "aq_delay"
    /\ rd' = [rd EXCEPT !.response = getQuery(rd.queryID).response, !.pc = "aq_send"]
    /\ UNCHANGED <<rd2, tables, privacylevel, files, setupVarsArray, now, dns, out>>

\* Lines 769-772: the timestamp and the status of the record are read and its
\* line is sent.
all_queries_send ==
    /\ rd.pc = "aq_send"
    /\ rd' = [rd EXCEPT !.rows = Append(@, allQueriesRow(rd.queryID, rd.response)),
                        !.queryID = @ + 1, !.pc = "aq_test"]
    /\ UNCHANGED <<rd2, tables, privacylevel, files, setupVarsArray, now, dns, out>>

\* getAllQueries taking, on its return, the records it scanned off the log.
all_queries_return_draining ==
    /\ rd.pc = "aq_return"
    /\ out' = allQueriesOut(rd.request, rd.total, rd.rows, rd.scanned, rd.quiet)
    /\ rd' = Idle
    /\ queries' = SubSeq(queries, 1, counters_queries - rd.scanned)
    /\ UNCHANGED <<rd2, domains, clients, forwarded, overTime, counters, privacylevel,
                   files, setupVarsArray, now, dns>>

\* Lines 775-784: the call returns.
all_queries_return ==
    /\ rd.pc = "aq_return"
    /\ out' = allQueriesOut(rd.request, rd.total, rd.rows, rd.scanned, rd.quiet)
    /\ rd' = Idle
    /\ UNCHANGED <<rd2, tables, privacylevel, files, setupVarsArray, now, dns>>

all_queries_step ==
    \/ all_queries_ibeg
    \/ all_queries_filter
    \/ all_queries_test
    \/ all_queries_delay
    \/ all_queries_send
    \/ all_queries_return

(***************************************************************************)
(* getRecentBlocked                                                        *)
(***************************************************************************)
\* Lines 788-795: num is 1 unless "(%i)" parsed; a number that is not below
\* counters->queries becomes 0.
recentBlockedNum(hasnum, num) ==
    IF hasnum THEN (IF num >= counters_queries THEN 0 ELSE num) ELSE 1

recentBlockedOut(r, rows) ==
    [call |-> "recent_blocked", blocked |-> FALSE, hasnum |-> r.hasnum,
     num |-> r.asked, rows |-> rows, clients |-> <<>>, scanned |-> 0,
     quiet |-> r.quiet]

\* Lines 786-795.
getRecentBlocked(hasnum, num) ==
    /\ Ready
    /\ rd' = [pc |-> "rb_init", call |-> "recent_blocked", quiet |-> TRUE,
              hasnum |-> hasnum, asked |-> num, num |-> recentBlockedNum(hasnum, num),
              queryID |-> 0, found |-> 0, rows |-> <<>>]
    /\ UNCHANGED <<rd2, tables, privacylevel, files, setupVarsArray, now, dns, out>>

\* Lines 797-799: int found = 0; queryID = counters->queries - 1.
recent_blocked_init ==
    /\ rd.pc = "rb_init"
    /\ rd' = [rd EXCEPT !.queryID = counters_queries - 1, !.pc = "rb_scan"]
    /\ UNCHANGED <<rd2, tables, privacylevel, files, setupVarsArray, now, dns, out>>

\* Lines 799-818: one pass of for(...; queryID > 0; queryID--); the domain of
\* a blocked query is sent within the pass, and the call returns after the
\* last pass.
recent_blocked_scan ==
    /\ rd.pc = "rb_scan"
    /\ IF rd.queryID > 0
       THEN LET hit == isBlockedStatus(getQuery(rd.queryID).status)
                found1 == IF hit THEN rd.found + 1 ELSE rd.found
                rows1 == IF hit
                         THEN Append(rd.rows, [domain |-> getDomainString(rd.queryID),
                                               queryID |-> rd.queryID])
                         ELSE rd.rows
            IN  IF found1 >= rd.num
                THEN rd' = Idle /\ out' = recentBlockedOut(rd, rows1)
                ELSE /\ rd' = [rd EXCEPT !.found = found1, !.rows = rows1,
                                         !.queryID = @ - 1]
                     /\ out' = out
       ELSE rd' = Idle /\ out' = recentBlockedOut(rd, rd.rows)
    /\ UNCHANGED <<rd2, tables, privacylevel, files, setupVarsArray, now, dns>>

recent_blocked_step ==
    \/ recent_blocked_init
    \/ recent_blocked_scan

(***************************************************************************)
(* The collaborators.  The resolver runs in threads of its own: it logs a  *)
(* query, or settles one, between any two steps of a reader call.  The     *)
(* administrator edits setupVars.conf or pihole-FTL.conf between requests. *)
(***************************************************************************)
\* The workloads the model draws queries from: entity e's domain, client and
\* upstream.  Client 2 has no host name.
Entities == {1, 2, 3}
DomainName(e) == CASE e = 1 -> "d1" [] e = 2 -> "d2" [] OTHER -> "d3"
ClientIP(e) == CASE e = 1 -> "10.0.0.1" [] e = 2 -> "10.0.0.2" [] OTHER -> "10.0.0.3"
ClientName(e) == CASE e = 1 -> "pc1" [] e = 2 -> "" [] OTHER -> "pc3"
UpstreamIP(e) == CASE e = 1 -> "8.8.8.8" [] e = 2 -> "9.9.9.9" [] OTHER -> "1.1.1.1"

\* The resolver logs a query of entity e.
Writer(maxq, e, status, type, response) ==
    /\ out = NoCall
    /\ rd.pc # "crashed"
    /\ Len(queries) < maxq
    /\ NewQuery(DomainName(e), ClientIP(e), ClientName(e), UpstreamIP(e),
                status, type, response)
    /\ rd' = disturbed
    /\ UNCHANGED <<rd2, privacylevel, files, setupVarsArray, now, dns, out>>

\* The resolver settles a query it logged with status unknown.
Resolve(e, status, response) ==
    /\ out = NoCall
    /\ rd.pc # "crashed"
    /\ \E queryID \in 0..(counters_queries - 1) :
          updateQuery(queryID, UpstreamIP(e), status, response)
    /\ rd' = disturbed
    /\ UNCHANGED <<rd2, privacylevel, files, setupVarsArray, now, dns, out>>

\* API_EXCLUDE_DOMAINS and API_EXCLUDE_CLIENTS are set (one client by host
\* name, one by address) or removed.
SetExclude(on) ==
    /\ Ready
    /\ setupVars' =
         IF on
         THEN [setupVars EXCEPT !.API_EXCLUDE_DOMAINS = <<"d3">>,
                                !.API_EXCLUDE_CLIENTS = <<"pc1", "10.0.0.3">>,
                                !.unset = @ \ {"API_EXCLUDE_DOMAINS", "API_EXCLUDE_CLIENTS"}]
         ELSE [setupVars EXCEPT !.API_EXCLUDE_DOMAINS = <<>>,
                                !.API_EXCLUDE_CLIENTS = <<>>,
                                !.unset = @ \cup {"API_EXCLUDE_DOMAINS", "API_EXCLUDE_CLIENTS"}]
    /\ setupVars' # setupVars
    /\ UNCHANGED <<rd2, tables, privacylevel, ftlconf, setupVarsArray, now, dns, out, rd>>

\* API_QUERY_LOG_SHOW is set to a value, or removed (filter = "").
SetFilter(filter) ==
    /\ Ready
    /\ setupVars' =
         IF filter = ""
         THEN [setupVars EXCEPT !.API_QUERY_LOG_SHOW = "",
                                !.unset = @ \cup {"API_QUERY_LOG_SHOW"}]
         ELSE [setupVars EXCEPT !.API_QUERY_LOG_SHOW = filter,
                                !.unset = @ \ {"API_QUERY_LOG_SHOW"}]
    /\ setupVars' # setupVars
    /\ UNCHANGED <<rd2, tables, privacylevel, ftlconf, setupVarsArray, now, dns, out, rd>>

\* PRIVACYLEVEL of pihole-FTL.conf is edited; config.privacylevel follows
\* when a reader reads the level anew.
SetPrivacy(level) ==
    /\ Ready
    /\ level # ftlconf.PRIVACYLEVEL
    /\ ftlconf' = [ftlconf EXCEPT !.PRIVACYLEVEL = level]
    /\ UNCHANGED <<rd2, tables, privacylevel, setupVars, setupVarsArray, now, dns, out, rd>>

\* The response has been sent and the connection is closed.
Respond ==
    /\ rd.pc = "idle"
    /\ out # NoCall
    /\ out' = NoCall
    /\ UNCHANGED <<rd2, tables, privacylevel, files, setupVarsArray, now, dns, rd>>

\* A second passes.
Tick ==
    /\ out = NoCall
    /\ rd.pc # "crashed"
    /\ now < OVERTIME_SLOTS * OVERTIME_INTERVAL
    /\ now' = now + 1
    /\ rd' = disturbed
    /\ UNCHANGED <<rd2, tables, privacylevel, files, setupVarsArray, dns, out>>

\* A second thread serves getAllQueries (lines 530-784) beside the first
\* call; the source takes no lock, so the first call and the resolver run
\* between its statements.  Of that call the model keeps what it does to the
\* state both calls share.  Lines 530-535: it reads the level anew and returns
\* at the maximum level.
conc_all_queries_privacy ==
    /\ rd2 = "idle"
    /\ rd.pc # "crashed"
    /\ privacylevel' = get_privacy_level
    /\ rd2' = IF get_privacy_level >= PRIVACY_MAXIMUM THEN "idle" ELSE "aq_filter"
    /\ rd' = disturbed
    /\ UNCHANGED <<tables, files, setupVarsArray, now, dns, out>>

\* Lines 670-696: clearSetupVarsArray(); the loop that follows (lines 698-784)
\* writes nothing.
conc_all_queries_clear ==
    /\ rd2 = "aq_filter"
    /\ rd.pc # "crashed"
    /\ setupVarsArray' = clearSetupVarsArray
    /\ rd2' = "idle"
    /\ rd' = disturbed
    /\ UNCHANGED <<tables, privacylevel, files, now, dns, out>>

ConcAllQueries ==
    \/ conc_all_queries_privacy
    \/ conc_all_queries_clear

\* The requests and the edits the specifications below share: the exclusion
\* lists are set or removed, the top domains are asked for (blocked or
\* permitted ones).
Exclude == \E on \in BOOLEAN : SetExclude(on)
TopDomains == \E blocked \in BOOLEAN : api_stats_top_domains(blocked)

(***************************************************************************)
(* Spec: the rankings over tables the writer fills from three entities,    *)
(* with the exclusion lists and the show filter edited in between.  The    *)
(* first entity sends its queries at any time, also while a ranking runs;  *)
(* the second and the third send theirs between requests.                  *)
(***************************************************************************)
Filters == {"", "permittedonly", "blockedonly", "nothing"}

\* Entity 2 is never blocked, entity 3 never forwarded.
RankStatuses(e) ==
    CASE e = 2 -> {QUERY_FORWARDED}
      [] e = 3 -> {QUERY_GRAVITY}
      [] OTHER -> {QUERY_GRAVITY, QUERY_FORWARDED}

RankWriter == \E e \in Entities : \E status \in RankStatuses(e) :
                 (e = 1 \/ Ready) /\ Writer(MaxQueries, e, status, TYPE_A, 0)

RankFilter == \E filter \in {"", "blockedonly"} : SetFilter(filter)

Next ==
    \/ RankWriter
    \/ Exclude
    \/ RankFilter
    \/ TopDomains
    \/ top_domains_step
    \/ getTopClients
    \/ top_clients_step
    \/ api_stats_upstreams
    \/ upstreams_step
    \/ Respond

Spec == Init /\ [][Next]_vars

(***************************************************************************)
(* SpecTop: the ranking of the domains over the tables of the end-to-end   *)
(* example: the first and the third domain are blocked, the second is not. *)
(* The resolver logs between requests (Spec and SpecConc have it log while *)
(* a ranking runs).                                                        *)
(***************************************************************************)
TopWriter == \E e \in Entities :
                Ready /\
                Writer(MaxTopQueries, e, IF e = 2 THEN QUERY_FORWARDED ELSE QUERY_GRAVITY,
                       TYPE_A, 0)
TopFilter == \E filter \in {"", "permittedonly"} : SetFilter(filter)
TopPrivacy == \E level \in {PRIVACY_SHOW_ALL, PRIVACY_HIDE_DOMAINS} : SetPrivacy(level)

NextTop ==
    \/ TopWriter
    \/ Exclude
    \/ TopFilter
    \/ TopPrivacy
    \/ TopDomains
    \/ top_domains_step
    \/ Respond

SpecTop == Init /\ [][NextTop]_vars

(***************************************************************************)
(* SpecOverTime: the overTime views while time passes and two clients send *)
(* queries, one of them excluded at times.                                 *)
(***************************************************************************)
\* The queries of the first client are blocked, those of the second forwarded.
OverTimeWriter == \E e \in {1, 2} :
                     Writer(MaxOverTimeQueries, e,
                            IF e = 1 THEN QUERY_GRAVITY ELSE QUERY_FORWARDED, TYPE_A, 0)

NextOverTime ==
    \/ OverTimeWriter
    \/ Exclude
    \/ Tick
    \/ api_stats_overTime_history
    \/ overTime_history_step
    \/ api_stats_overTime_clients
    \/ overTime_clients_step
    \/ Respond

SpecOverTime == Init /\ [][NextOverTime]_vars

(***************************************************************************)
(* SpecPolicy: every reader that the privacy level or the exclusion lists  *)
(* govern, while the administrator edits both.  The excluded third entity  *)
(* sends its queries at any time, the second between requests.             *)
(***************************************************************************)
PrivacyLevels == {PRIVACY_SHOW_ALL, PRIVACY_HIDE_DOMAINS,
                  PRIVACY_HIDE_DOMAINS_CLIENTS, PRIVACY_MAXIMUM}

\* The queries of the second entity are forwarded.
PolicyStatuses(e) == IF e = 2 THEN {QUERY_FORWARDED} ELSE {QUERY_GRAVITY, QUERY_FORWARDED}
PolicyWriter == \E e \in {2, 3} : \E status \in PolicyStatuses(e) :
                   (e = 3 \/ Ready) /\ Writer(MaxPolicyQueries, e, status, TYPE_A, 0)
PolicyPrivacy == \E level \in PrivacyLevels : SetPrivacy(level)
PolicyAllQueries == getAllQueries(FALSE, 0)

NextPolicy ==
    \/ PolicyWriter
    \/ PolicyPrivacy
    \/ Exclude
    \/ TopDomains
    \/ top_domains_step
    \/ getTopClients
    \/ top_clients_step
    \/ api_stats_overTime_clients
    \/ overTime_clients_step
    \/ PolicyAllQueries
    \/ all_queries_step
    \/ Respond

SpecPolicy == Init /\ [][NextPolicy]_vars

(***************************************************************************)
(* SpecLog: the query log read with and without a number of entries, over  *)
(* blocked and forwarded queries of delays around the ceiling.             *)
(***************************************************************************)
Responses == {0, DELAY_CEILING, DELAY_CEILING + 1, 20000000}

\* The numbers of entries asked for: none, some, more than the log holds,
\* and negative ones down to the smallest int.
Nums == (0..(MaxLogQueries + 1)) \cup {-1, -INT_MAX, INT_MIN}

LogWriter == \E status \in {QUERY_GRAVITY, QUERY_FORWARDED},
                response \in Responses :
                Writer(MaxLogQueries, 1, status, TYPE_A, response)
LogFilter == \E filter \in Filters : SetFilter(filter)
LogAllQueries == \E hasnum \in BOOLEAN, num \in Nums :
                    /\ (~hasnum => num = 0)
                    /\ getAllQueries(hasnum, num)

NextLog ==
    \/ LogWriter
    \/ LogFilter
    \/ LogAllQueries
    \/ all_queries_step
    \/ Respond

SpecLog == Init /\ [][NextLog]_vars

(***************************************************************************)
(* SpecConc: the rankings while the writer goes on logging queries.  rd    *)
(* holds, for the call in progress, the length its array was declared with *)
(* (size) and the highest index at which the array was read or written     *)
(* (idx).                                                                  *)
(***************************************************************************)
ConcWriter == \E e \in {1, 2}, status \in {QUERY_GRAVITY, QUERY_FORWARDED} :
                 Writer(MaxConcQueries, e, status, TYPE_A, 0)

NextConc ==
    \/ ConcWriter
    \/ Exclude
    \/ TopDomains
    \/ top_domains_step
    \/ getTopClients
    \/ top_clients_step
    \/ api_stats_upstreams
    \/ upstreams_step
    \/ api_stats_overTime_clients
    \/ overTime_clients_step
    \/ Respond

SpecConc == Init /\ [][NextConc]_vars

(***************************************************************************)
(* SpecShared: the rankings that use the exclusion list while a second     *)
(* request is served by another thread.  The writer acts between requests  *)
(* only, so that what happens to a call is due to the other reader alone.  *)
(***************************************************************************)
SharedWriter == \E e \in {1, 3}, status \in {QUERY_GRAVITY, QUERY_FORWARDED} :
                   Ready /\ Writer(MaxSharedQueries, e, status, TYPE_A, 0)

SharedPrivacy == \E level \in {PRIVACY_SHOW_ALL, PRIVACY_MAXIMUM} : SetPrivacy(level)

NextShared ==
    \/ SharedWriter
    \/ Exclude
    \/ SharedPrivacy
    \/ TopDomains
    \/ top_domains_step
    \/ getTopClients
    \/ top_clients_step
    \/ ConcAllQueries
    \/ Respond

SpecShared == Init /\ [][NextShared]_vars

(***************************************************************************)
(* SpecReaders: every reader of the file over a short log, with the        *)
(* privacy level edited in between.  The first entity sends its queries at *)
(* any time, the third between requests.                                   *)
(***************************************************************************)
ReadersWriter == \E e \in {1, 3}, status \in {QUERY_GRAVITY, QUERY_FORWARDED} :
                    (e = 1 \/ Ready) /\ Writer(MaxReaderQueries, e, status, TYPE_A, 0)
ReadersPrivacy == \E level \in {PRIVACY_SHOW_ALL, PRIVACY_MAXIMUM} : SetPrivacy(level)
ReadersAllQueries == getAllQueries(TRUE, 1)
ReadersRecentBlocked ==
    \/ getRecentBlocked(FALSE, 0)
    \/ \E num \in 1..MaxReaderQueries : getRecentBlocked(TRUE, num)

\* A reader takes up a request.
ReaderCall ==
    \/ TopDomains
    \/ getTopClients
    \/ api_stats_upstreams
    \/ api_stats_overTime_history
    \/ api_stats_overTime_clients
    \/ ReadersAllQueries
    \/ ReadersRecentBlocked

\* A reader goes on with the request it has taken up.
ReaderStep ==
    \/ top_domains_step
    \/ top_clients_step
    \/ upstreams_step
    \/ overTime_history_step
    \/ overTime_clients_step
    \/ all_queries_step
    \/ recent_blocked_step

NextReaders ==
    \/ ReadersWriter
    \/ Exclude
    \/ ReadersPrivacy
    \/ ReaderCall
    \/ ReaderStep
    \/ Respond

SpecReaders == Init /\ [][NextReaders]_vars

(***************************************************************************)
(* SpecShow: the query log over records of every status class, some of     *)
(* them settled after they were logged, with the show filter edited in     *)
(* between.                                                                *)
(***************************************************************************)
ShowStatuses == {QUERY_UNKNOWN, QUERY_GRAVITY, QUERY_FORWARDED, QUERY_CACHE,
                 QUERY_EXTERNAL_BLOCKED}

ShowWriter == \E e \in {1, 2}, status \in ShowStatuses :
                 Writer(MaxShowQueries, e, status, TYPE_A, 0)
ShowResolve == \E status \in {QUERY_GRAVITY, QUERY_FORWARDED} :
                  Resolve(1, status, 0)
ShowFilter == \E filter \in Filters : SetFilter(filter)
ShowAllQueries == getAllQueries(FALSE, 0)
ShowForward == \E forwarddest \in {"blocklist", "cache", "8.8.8.8"} :
                  getAllQueriesForward(forwarddest)

NextShow ==
    \/ ShowWriter
    \/ ShowResolve
    \/ ShowFilter
    \/ ShowAllQueries
    \/ ShowForward
    \/ all_queries_step
    \/ Respond

SpecShow == Init /\ [][NextShow]_vars

(***************************************************************************)
(* api_dns_status (src/api/dns.c).  A request is what the handler sees of  *)
(* it: the method, whether check_client_auth() accepts the client, the     *)
(* body ("empty": mg_read() gives no data; "invalid": cJSON_Parse() gives  *)
(* NULL; "json": an object), its "action" item (missing, a number, or a    *)
(* string) and its "time" item (hastime: a number is present; halves: the  *)
(* number in halves, 3 for 1.5).                                           *)
(***************************************************************************)
\* Line 69: unsigned int delay = -1, handed to set_blockingmode_timer(), which
\* takes it as "no timer".
NO_DELAY == -1

\* cJSON: valuedouble is the number as parsed, valueint the same number as an
\* int, the fraction cut off and the value kept within INT_MIN .. INT_MAX.
valueint(halves) ==
    LET whole == IF halves >= 0 THEN halves \div 2 ELSE -((-halves) \div 2)
    IN  IF whole > INT_MAX THEN INT_MAX
        ELSE IF whole < INT_MIN THEN INT_MIN
        ELSE whole

\* Lines 69-74: the delay handed to the timer: valueint when valuedouble > 0.0,
\* so 0 for a time between 0 and 1.
dnsDelay(req) ==
    IF req.hastime /\ req.halves > 0 THEN valueint(req.halves) ELSE NO_DELAY

\* Lines 26-109: the HTTP code of the answer; 0 is "not handled" (line 108).
dnsCode(req) ==
    IF req.method = "GET" THEN 200
    ELSE IF req.method = "POST"
    THEN IF ~req.auth THEN 401
         ELSE IF req.body = "empty" THEN 400
         ELSE IF req.body = "invalid" THEN 400
         ELSE IF req.actiontype # "string" THEN 400
         ELSE IF req.action = "enable" THEN 200
         ELSE IF req.action = "disable" THEN 200
         ELSE 400
    ELSE 0

\* What /api/dns/status answers.
dnsOut(code, status) ==
    [call |-> "dns_status", blocked |-> FALSE, hasnum |-> FALSE, num |-> 0,
     rows |-> <<>>, clients |-> <<>>, scanned |-> 0, code |-> code, status |-> status]

\* api_dns_status without the test of check_client_auth() (lines 37-40).
api_dns_status_noauth(req) ==
    /\ Ready
    /\ Len(requests) < MaxRequests
    /\ requests' = Append(requests, req)
    /\ IF req.method = "POST" /\ req.body = "json" /\ req.actiontype = "string"
          /\ req.action \in {"enable", "disable"}
       THEN /\ timer' = [delay |-> dnsDelay(req), target |-> req.action = "disable"]
            /\ rd' = [pc |-> "dns_status", request |-> req, quiet |-> TRUE]
            /\ UNCHANGED <<blockingstatus, out>>
       ELSE /\ out' = dnsOut(200, "")
            /\ UNCHANGED <<blockingstatus, timer, rd>>
    /\ UNCHANGED <<rd2, tables, privacylevel, files, setupVarsArray, now>>

\* Lines 24-110, as far as set_blockingmode_timer().  "enable" sets the timer
\* with target false (line 83), "disable" with target true (line 92); the
\* status is set by the call that follows, with no lock held across the two.
\* Every other path returns before either call.
api_dns_status(req) ==
    /\ Ready
    /\ Len(requests) < MaxRequests
    /\ requests' = Append(requests, req)
    /\ IF dnsCode(req) = 200 /\ req.method = "POST"
       THEN /\ timer' = [delay |-> dnsDelay(req), target |-> req.action = "disable"]
            /\ rd' = [pc |-> "dns_status", request |-> req, quiet |-> TRUE]
            /\ UNCHANGED <<blockingstatus, out>>
       ELSE /\ out' = dnsOut(dnsCode(req),
                             IF req.method = "GET"
                             THEN (IF blockingstatus THEN "enabled" ELSE "disabled")
                             ELSE "")
            /\ UNCHANGED <<blockingstatus, timer, rd>>
    /\ UNCHANGED <<rd2, tables, privacylevel, files, setupVarsArray, now>>

\* Lines 84 and 93: set_blockingstatus(true) for "enable",
\* set_blockingstatus(false) for "disable", and the answer.
api_dns_status_set ==
    /\ rd.pc = "dns_status"
    /\ blockingstatus' = (rd.request.action = "enable")
    /\ out' = dnsOut(200, "")
    /\ rd' = Idle
    /\ UNCHANGED <<rd2, tables, privacylevel, files, setupVarsArray, now, timer, requests>>

\* timers.c: the timer counts down and, at 0, sets the blocking status to its
\* target and switches itself off.
timerTick ==
    /\ timer.delay >= 0
    /\ IF timer.delay > 0
       THEN /\ timer' = [timer EXCEPT !.delay = @ - 1]
            /\ blockingstatus' = blockingstatus
       ELSE /\ timer' = [timer EXCEPT !.delay = NO_DELAY]
            /\ blockingstatus' = timer.target
    /\ UNCHANGED <<rd2, tables, privacylevel, files, setupVarsArray, now, out, rd, requests>>

(***************************************************************************)
(* SpecDns: requests to /api/dns/status of every kind the handler tells    *)
(* apart.                                                                  *)
(***************************************************************************)
\* The times asked for: -1, 0, 0.5 and 1.
Halves == {-2, 0, 1, 2}

DnsRequests ==
    { [method |-> m, auth |-> TRUE, body |-> "json", actiontype |-> "string",
       action |-> "disable", hastime |-> FALSE, halves |-> 0] : m \in {"GET", "PUT"} }
    \cup
    { [method |-> "POST", auth |-> FALSE, body |-> "json", actiontype |-> "string",
       action |-> a, hastime |-> FALSE, halves |-> 0] : a \in {"enable", "disable"} }
    \cup
    { [method |-> "POST", auth |-> TRUE, body |-> b, actiontype |-> "string",
       action |-> "disable", hastime |-> FALSE, halves |-> 0] : b \in {"empty", "invalid"} }
    \cup
    { [method |-> "POST", auth |-> TRUE, body |-> "json", actiontype |-> t,
       action |-> "enable", hastime |-> FALSE, halves |-> 0] : t \in {"missing", "number"} }
    \cup
    { [method |-> "POST", auth |-> TRUE, body |-> "json", actiontype |-> "string",
       action |-> a, hastime |-> FALSE, halves |-> 0] : a \in {"enable", "disable", "Enable"} }
    \cup
    { [method |-> "POST", auth |-> TRUE, body |-> "json", actiontype |-> "string",
       action |-> a, hastime |-> TRUE, halves |-> h] :
          a \in {"enable", "disable", "Enable"}, h \in Halves }

DnsStatus == \E req \in DnsRequests : api_dns_status(req)

NextDns ==
    \/ DnsStatus
    \/ api_dns_status_set
    \/ timerTick
    \/ Respond

SpecDns == Init /\ [][NextDns]_vars

(***************************************************************************)
(* What the claims speak of.                                               *)
(***************************************************************************)
Range(s) == { s[i] : i \in 1..Len(s) }

Least(S) == CHOOSE x \in S : \A y \in S : x <= y

\* The active exclusion sets, as configured.
ExcludedDomains ==
    IF isSet("API_EXCLUDE_DOMAINS") THEN Range(setupVars.API_EXCLUDE_DOMAINS) ELSE {}
ExcludedClients ==
    IF isSet("API_EXCLUDE_CLIENTS") THEN Range(setupVars.API_EXCLUDE_CLIENTS) ELSE {}

IsRanking == out.call \in {"top_domains", "top_clients", "upstreams"}

\* The row limit of the ranking that was called.
RankingLimit ==
    CASE out.call = "top_domains" -> show
      [] out.call = "top_clients" -> topClientsCount
      [] OTHER -> upstreamsShown

\* Domains a ranking by blocked count may return: blocked at least once,
\* neither excluded nor hidden.
EligibleBlocked ==
    { id \in 0..(counters_domains - 1) :
        /\ getDomain(id).blockedcount > 0
        /\ getDomain(id).domain \notin ExcludedDomains
        /\ getDomain(id).domain # HIDDEN_DOMAIN }

RowIds == { out.rows[i].id : i \in 1..Len(out.rows) }

(***************************************************************************)
(* C1                                                                      *)
(***************************************************************************)
\* C1 as claimed: every ranking call (top domains, top clients, upstreams)
\* returns at most its limit n of rows, and every returned row has count > 0.
\* Stated of the calls during which the resolver logs no query.
C1_AtMostLimitAllPositive ==
    (IsRanking /\ out.quiet) =>
        /\ Len(out.rows) <= RankingLimit
        /\ \A i \in 1..Len(out.rows) : out.rows[i].count > 0

\* C1 as amended: in a call during which the resolver logs no query, top
\* domains and top clients return at most their limit of rows, each with
\* count > 0; upstreams returns the two special rows "blocklist" and "cache"
\* first, with the counts of blocked and of cached queries, whatever these
\* are (0 included), and after them at most the limit of regular upstreams,
\* each with count > 0.
C1_RankingBounds ==
    out.quiet =>
    /\ out.call \in {"top_domains", "top_clients"} =>
          /\ Len(out.rows) <= RankingLimit
          /\ \A i \in 1..Len(out.rows) : out.rows[i].count > 0
    /\ out.call = "upstreams" =>
          /\ Len(out.rows) >= 2
          /\ Len(out.rows) <= RankingLimit + 2
          /\ out.rows[1].id = -2 /\ out.rows[2].id = -1
          /\ out.rows[1].count = counters.blocked
          /\ out.rows[2].count = counters.cached
          /\ \A i \in 3..Len(out.rows) : out.rows[i].id >= 0 /\ out.rows[i].count > 0

\* C1 witness: a top-clients call, during which no query was logged, cut off
\* at the limit while a further client had a positive count.
C1_Witness ==
    /\ out.call = "top_clients" /\ out.quiet
    /\ Len(out.rows) = topClientsCount
    /\ Cardinality({ id \in 0..(counters_clients - 1) : getClient(id).count > 0 })
          > topClientsCount

(***************************************************************************)
(* C2                                                                      *)
(***************************************************************************)
\* C2: in the output of a ranking call, of two rows with equal count the one
\* with the lower identifier comes first.  Stated of the calls during which
\* the resolver logs no query.
C2_TiesByIdentifier ==
    (IsRanking /\ out.quiet) =>
        \A i, j \in 1..Len(out.rows) :
            (i < j /\ out.rows[i].count = out.rows[j].count)
                => out.rows[i].id < out.rows[j].id

(***************************************************************************)
(* C7                                                                      *)
(***************************************************************************)
\* The rows are eligible domains with their blocked counts, in non-increasing
\* order, as many as the limit allows, and none left out outranks a row.
TopBlockedExact ==
    /\ RowIds \subseteq EligibleBlocked
    /\ \A i \in 1..Len(out.rows) :
          out.rows[i].count = getDomain(out.rows[i].id).blockedcount
    /\ \A i, j \in 1..Len(out.rows) : i < j => out.rows[i].id # out.rows[j].id
    /\ \A i, j \in 1..Len(out.rows) : i < j => out.rows[i].count >= out.rows[j].count
    /\ Len(out.rows) = min(show, Cardinality(EligibleBlocked))
    /\ \A id \in EligibleBlocked \ RowIds :
          \A i \in 1..Len(out.rows) : getDomain(id).blockedcount <= out.rows[i].count

NonZeroSlots == { s \in Slots : overTime[s].total # 0 \/ overTime[s].blocked # 0 }
EmittedSlots == { out.rows[i].slot : i \in 1..Len(out.rows) }

\* C5 as claimed: api_stats_overTime_history emits no slot when every slot is
\* zero, and emits exactly slot k when k is the only non-zero slot and its
\* timestamp is before the current time.  Stated of the calls during which
\* neither the series nor the time changes.
C5_WindowIsTheSlot ==
    (out.call = "overTime_history" /\ out.quiet) =>
        /\ NonZeroSlots = {} => out.rows = <<>>
        /\ \A k \in Slots :
              (NonZeroSlots = {k} /\ overTime[k].timestamp < now)
                  => EmittedSlots = {k}

(***************************************************************************)
(* C3, C4, C10                                                             *)
(***************************************************************************)
\* C3: no ranking call and no log call returns a row that names an entity
\* whose display string is in the active exclusion set.  Stated of the calls
\* that neither the resolver nor another reader overtakes.
C3_ExcludedNeverReturned ==
    out.quiet =>
    /\ out.call = "top_domains" =>
          \A i \in 1..Len(out.rows) : out.rows[i].domain \notin ExcludedDomains
    /\ out.call = "top_clients" =>
          \A i \in 1..Len(out.rows) :
              out.rows[i].ip \notin ExcludedClients /\ out.rows[i].name \notin ExcludedClients
    /\ out.call = "overTime_clients" =>
          \A i \in 1..Len(out.clients) :
              out.clients[i].ip \notin ExcludedClients
                /\ out.clients[i].name \notin ExcludedClients
    /\ out.call = "getAllQueries" =>
          \A i \in 1..Len(out.rows) :
              out.rows[i].domain \notin ExcludedDomains
                /\ out.rows[i].client \notin ExcludedClients

\* C4: while the privacy level hides domains, no row of api_stats_top_domains
\* and no row of getAllQueries carries a real domain string, also for records
\* logged while a lower level was in force.
C4_NoRealDomainWhenHidden ==
    (privacylevel >= PRIVACY_HIDE_DOMAINS /\ out.call \in {"top_domains", "getAllQueries"})
        => \A i \in 1..Len(out.rows) : out.rows[i].domain = HIDDEN_DOMAIN

\* C10: while the privacy level hides clients, getTopClients sends no row and
\* api_stats_overTime_clients sends the empty result (no slot, no client name
\* or address, no count), and neither has read a client or a slot.  The level
\* is the one the call has read anew at its entry.
C10_ClientsDenied ==
    (privacylevel >= PRIVACY_HIDE_DOMAINS_CLIENTS
       /\ out.call \in {"top_clients", "overTime_clients"})
        => /\ out.rows = <<>>
           /\ out.clients = <<>>
           /\ out.scanned = 0

\* C10 witness: clients are hidden by the privacy level, a client with its
\* real address and a slot with data exist, and the per-client view was asked.
C10_Witness ==
    /\ privacylevel >= PRIVACY_HIDE_DOMAINS_CLIENTS
    /\ out.call = "overTime_clients"
    /\ NonZeroSlots # {}
    /\ \E id \in 0..(counters_clients - 1) : getClient(id).ip # HIDDEN_CLIENT

(***************************************************************************)
(* C8, C9                                                                  *)
(***************************************************************************)
\* C8: every record getAllQueries emits is reported with latency 0 when its
\* response latency is above 18 000 000 (20 000 000 in particular), and with
\* its stored latency otherwise; the latency is the one the record holds when
\* its line is sent.
C8_LatencyCeiling ==
    out.call = "getAllQueries" =>
        \A i \in 1..Len(out.rows) :
            LET response == out.rows[i].response
            IN  /\ response > 18000000 => out.rows[i].delay = 0
                /\ response <= 18000000 => out.rows[i].delay = response
                /\ response = 20000000 => out.rows[i].delay = 0
                /\ out.quiet => response = getQuery(out.rows[i].queryID).response

\* C8 witness: a record with latency 20 000 000 and one with latency
\* 18 000 000 have been emitted.
C8_Witness ==
    /\ out.call = "getAllQueries"
    /\ \E i, j \in 1..Len(out.rows) :
          /\ getQuery(out.rows[i].queryID).response = 20000000
          /\ getQuery(out.rows[j].queryID).response = 18000000

\* C9: a getAllQueries call during which the log, the tables and the
\* configuration do not change leaves a state in which the same call (same
\* number of entries) returns the same rows in the same order.
C9_ScanIdempotent ==
    (out.call = "getAllQueries" /\ out.quiet)
        => allQueriesRows(out.hasnum, out.num) = out.rows

\* C9 witness: a call with a number of entries that has returned two rows.
C9_Witness ==
    /\ out.call = "getAllQueries" /\ out.quiet
    /\ out.hasnum
    /\ Len(out.rows) >= 2

(***************************************************************************)
(* C6                                                                      *)
(***************************************************************************)
\* C6: while the writer appends, a reader call never reads or writes its
\* per-call buffer (temparray or skipclient, sized from the count read at
\* call entry) at an index at or beyond the element count it observed at the
\* start of the call.
C6_WithinEntryCount ==
    rd.pc # "idle" => rd.idx < rd.size

(***************************************************************************)
(* C11                                                                     *)
(***************************************************************************)
\* C11: every step of every reader call (top domains, top clients, upstreams,
\* both time series, the query log, the recent blocked domains) leaves the
\* entity tables, the log, the slots and the counters as they were.
C11_ReadersLeaveTables ==
    [][(ReaderCall \/ ReaderStep) => tables' = tables]_vars

\* C11 witness: clients have been logged and the client ranking has answered
\* with a row.
C11_Witness ==
    /\ out.call = "top_clients"
    /\ counters_queries > 0
    /\ Len(out.rows) >= 1

(***************************************************************************)
(* C12                                                                     *)
(***************************************************************************)
\* max(0, totalRecords - n), totalRecords being the length of the log when
\* the start index was computed.
StartIndex(n) == IF out.total - n > 0 THEN out.total - n ELSE 0

\* The records a scan from max(0, total - n) to the end of the log examines.
ScanRange == StartIndex(out.num)..(out.total - 1)

\* C12: getAllQueries with limit n (n >= 0, the call not being denied by the
\* privacy level) starts at max(0, total - n), examines exactly the records
\* from there to the end of the log in insertion order, returns at most n
\* rows and no record below the start index.
C12_LimitBoundsScanRange ==
    (out.call = "getAllQueries" /\ out.hasnum /\ out.num >= 0
       /\ privacylevel < PRIVACY_MAXIMUM)
        => /\ out.scanned = Cardinality(ScanRange)
           /\ Len(out.rows) <= out.num
           /\ \A i \in 1..Len(out.rows) : out.rows[i].queryID \in ScanRange
           /\ \A i, j \in 1..Len(out.rows) :
                 i < j => out.rows[i].queryID < out.rows[j].queryID

\* What the code keeps of C12: a call during which the resolver logs no query
\* scans the last n records and nothing else, and its rows are the records
\* of that range that pass the tests of lines 700-749.
QuietScanIsTheLastN ==
    (out.call = "getAllQueries" /\ out.hasnum /\ out.num >= 0 /\ out.quiet
       /\ privacylevel < PRIVACY_MAXIMUM)
        => /\ out.scanned = Cardinality(ScanRange)
           /\ Len(out.rows) <= out.num
           /\ \A i, j \in 1..Len(out.rows) :
                 i < j => out.rows[i].queryID < out.rows[j].queryID
           /\ { out.rows[i].queryID : i \in 1..Len(out.rows) }
                 = { q \in ScanRange : ~allQueriesSkip(getQuery(q), showflags) }

(***************************************************************************)
(* C13                                                                     *)
(***************************************************************************)
\* The status classes of the query record: four blocking statuses, two
\* answering statuses.
BlockingStatuses ==
    {QUERY_GRAVITY, QUERY_WILDCARD, QUERY_BLACKLIST, QUERY_EXTERNAL_BLOCKED}
AnsweringStatuses == {QUERY_FORWARDED, QUERY_CACHE}

\* C13: getAllQueries emits no row with a blocking status while the show
\* filter hides blocked queries, and no row with status forwarded or cached
\* while it hides permitted queries (neither with the filter "nothing").
C13_ShowFlagsGateStatus ==
    out.call = "getAllQueries" =>
        \A i \in 1..Len(out.rows) :
            /\ ~showblocked => out.rows[i].status \notin BlockingStatuses
            /\ ~showpermitted => out.rows[i].status \notin AnsweringStatuses

(***************************************************************************)
(* C14                                                                     *)
(***************************************************************************)
\* The records of the whole log that pass the predicates of getAllQueries.
MatchingRecords ==
    { q \in 0..(counters_queries - 1) : ~allQueriesSkip(getQuery(q), showflags) }

\* The records an upstream filter is to let through: "blocklist" the records
\* with a blocking status, "cache" the cached ones, an upstream address the
\* forwarded ones of that upstream.
LetThrough(forwarddest, query) ==
    IF forwarddest = "blocklist" THEN query.status \in BlockingStatuses
    ELSE IF forwarddest = "cache" THEN query.status = QUERY_CACHE
    ELSE /\ query.status = QUERY_FORWARDED
         /\ query.forwardID >= 0
         /\ getForward(query.forwardID).ip = forwarddest

\* C14: getAllQueries asked with an upstream filter emits exactly the
\* matching records the filter lets through: blocked ones for "blocklist",
\* cached ones for "cache", and for a real upstream the records forwarded to
\* it (never a cached or blocked record).
C14_UpstreamFilter ==
    (out.call = "getAllQueries" /\ out.quiet /\ out.forwarddest # "")
        => { out.rows[i].queryID : i \in 1..Len(out.rows) }
             = { q \in MatchingRecords : LetThrough(out.forwarddest, getQuery(q)) }

(***************************************************************************)
(* C15                                                                     *)
(***************************************************************************)
\* C15: getAllQueries never emits a record that was logged at the maximum
\* privacy level, whatever the level is now; and while the level is the
\* maximum it emits no row and looks at no record.
C15_MaximumPrivacy ==
    out.call = "getAllQueries" =>
        /\ \A i \in 1..Len(out.rows) :
              getQuery(out.rows[i].queryID).privacylevel < PRIVACY_MAXIMUM
        /\ privacylevel >= PRIVACY_MAXIMUM => (out.rows = <<>> /\ out.scanned = 0)

\* C15 witness: the level is below the maximum again, the log holds a record
\* logged at the maximum level and an open one, and the call has emitted the
\* open one alone.
C15_Witness ==
    /\ out.call = "getAllQueries"
    /\ privacylevel < PRIVACY_MAXIMUM
    /\ \E q \in 0..(counters_queries - 1) : getQuery(q).privacylevel >= PRIVACY_MAXIMUM
    /\ Len(out.rows) = 1
    /\ out.scanned = 2

(***************************************************************************)
(* C16                                                                     *)
(***************************************************************************)
\* C16: with the slots in ascending timestamp order, every slot emitted by
\* api_stats_overTime_history and api_stats_overTime_clients is at or after
\* the first slot that holds data and has a timestamp before the current
\* time, and the emitted slots are consecutive.
C16_WindowWithinData ==
    out.call \in {"overTime_history", "overTime_clients"} =>
        /\ \A i \in 1..Len(out.rows) :
              /\ NonZeroSlots # {}
              /\ out.rows[i].slot >= Least(NonZeroSlots)
              /\ overTime[out.rows[i].slot].timestamp < now
              /\ out.rows[i].timestamp = overTime[out.rows[i].slot].timestamp
        /\ \A i \in 1..(Len(out.rows) - 1) : out.rows[i + 1].slot = out.rows[i].slot + 1

\* C16 witness: the per-client view has emitted a slot, the first slot of the
\* array holds no data and the last one is not yet due.
C16_Witness ==
    /\ out.call = "overTime_clients"
    /\ Len(out.rows) >= 1
    /\ 0 \notin NonZeroSlots
    /\ overTime[OVERTIME_SLOTS - 1].timestamp >= now

(***************************************************************************)
(* C17                                                                     *)
(***************************************************************************)
\* C17: a ranking call that runs while another reader call is served still
\* omits every excluded entity: the other call's use of the shared setupVars
\* array lets no excluded domain or client in.
C17_ExclusionUnderInterleaving ==
    /\ out.call = "top_domains" =>
          \A i \in 1..Len(out.rows) : out.rows[i].domain \notin ExcludedDomains
    /\ out.call = "top_clients" =>
          \A i \in 1..Len(out.rows) :
              out.rows[i].ip \notin ExcludedClients /\ out.rows[i].name \notin ExcludedClients

(***************************************************************************)
(* C18                                                                     *)
(***************************************************************************)
\* The queries of the whole log with status gravity, wildcard or blacklist.
BlockedRecords ==
    { q \in 0..(counters_queries - 1) : isBlockedStatus(getQuery(q).status) }
RecentIds == { out.rows[i].queryID : i \in 1..Len(out.rows) }

\* C18: getRecentBlocked asked for num domains, 1 <= num < number of logged
\* queries (num = 1 when no number is given), emits the domains of the num
\* most recent blocked queries of the whole log, record 0 included, most
\* recent first, and fewer only when the log holds fewer blocked queries.
C18_RecentBlocked ==
    LET n == IF out.hasnum THEN out.num ELSE 1
    IN  (out.call = "recent_blocked" /\ out.quiet /\ 1 <= n /\ n < counters_queries)
            => /\ RecentIds \subseteq BlockedRecords
               /\ Len(out.rows) = min(n, Cardinality(BlockedRecords))
               /\ \A i, j \in 1..Len(out.rows) :
                     i < j => out.rows[i].queryID > out.rows[j].queryID
               /\ \A e \in RecentIds, b \in BlockedRecords \ RecentIds : b < e
               /\ \A i \in 1..Len(out.rows) :
                     out.rows[i].domain = getDomainString(out.rows[i].queryID)

(***************************************************************************)
(* C19                                                                     *)
(***************************************************************************)
\* The request is a POST that was authorized and whose body parsed to a
\* string "action" of exactly "enable" or "disable".
Effective(req) ==
    /\ req.method = "POST"
    /\ req.auth
    /\ req.body = "json"
    /\ req.actiontype = "string"
    /\ req.action \in {"enable", "disable"}

PositiveTime(req) == req.hastime /\ req.halves > 0

EffectiveRequests == { i \in 1..Len(requests) : Effective(requests[i]) }
LastEffective == CHOOSE i \in EffectiveRequests : \A j \in EffectiveRequests : j <= i

\* After requests none of which carries a positive "time", once the last of
\* them is answered, the blocking status is what the most recent effective
\* POST has set.
StatusIsLastEffective ==
    (rd.pc = "idle" /\ (\A i \in 1..Len(requests) : ~PositiveTime(requests[i])) /\ EffectiveRequests # {})
        => blockingstatus = (requests[LastEffective].action = "enable")

\* A request that is not an effective POST leaves the blocking status and
\* the timer as they were.
OthersChangeNothing ==
    (requests' # requests /\ ~Effective(requests'[Len(requests')]))
        => (blockingstatus' = blockingstatus /\ timer' = timer)

\* C19: after any sequence of requests to api_dns_status without a positive
\* "time", the blocking status is the one set by the most recent authorized
\* POST with action "enable" or "disable"; GET, other methods, unauthorized
\* POSTs and POSTs with an empty or unparsable body, without a string action
\* or with another action leave the status and the timer unchanged.
C19_StatusFollowsLastEffectivePost ==
    []StatusIsLastEffective /\ [][OthersChangeNothing]_vars

\* C19 witness: blocking was disabled by an effective POST, and requests that
\* are not effective (one of them an unauthorized "enable") came after it.
C19_Witness ==
    /\ Len(requests) = 3
    /\ \A i \in 1..3 : ~PositiveTime(requests[i])
    /\ Effective(requests[1]) /\ requests[1].action = "disable"
    /\ ~requests[2].auth /\ requests[2].action = "enable"
    /\ requests[3].action = "Enable"
    /\ rd.pc = "idle"
    /\ blockingstatus = FALSE

====
